---- MODULE Spec2Model ----
(***************************************************************************)
(* Request-path resilience layer of the ranex-framework demo application:  *)
(*   - CircuitBreaker (examples/fastapi_demo/commons/circuit_breaker.py)   *)
(*   - TokenBucket    (app/commons/rate_limiter.py)                        *)
(* Time is an integer clock `now` (the value time.time() returns).  Token  *)
(* counts are fixed-point numbers: one token is TokenUnit units.           *)
(***************************************************************************)
EXTENDS Integers, FiniteSets, Sequences, TLC

VARIABLES
    now,               \* the value time.time() returns
    \* ---- CircuitBreaker -------------------------------------------------
    config,            \* CircuitBreakerConfig of the breaker
    metrics_available, \* self._metrics_available (import of app.commons.metrics)
    state,             \* self.state
    stats,             \* self.stats (CircuitBreakerStats)
    gauge,             \* value last set on the circuit_breaker_state gauge
    lock,              \* holder of self._lock, or NoTask
    pc,                \* position of every caller task inside call()
    call,              \* per task: what its current / last call() saw and got
    reset_pending,     \* a _reset() task was created and has not run yet
    calls,             \* number of call() invocations started so far
    streak,            \* history: classified failures in a row (no success between)
    ho_succ,           \* history: successes completed since HALF_OPEN was entered
    ho_invoked,        \* history: operations invoked in the current HALF_OPEN episode
    opened_count,      \* history: number of times the breaker entered OPEN
    just_reset,        \* history: _reset() was the last thing done to the breaker
    \* ---- TokenBucket ----------------------------------------------------
    capacity,          \* self.capacity (in token units)
    refill_rate,       \* self.refill_rate (token units per clock tick)
    buckets,           \* self._buckets: key -> (tokens, last_refill) or NoBucket
    ret,               \* what the last consume() did and returned
    redis_client,      \* self.redis_client
    consumed,          \* number of consume() calls made so far
    key_hist,          \* history, per key: creation time and number of consumes
    th,                \* per thread: its position in consume() and its locals
    store,             \* the redis hashes: redis key -> (tokens, last_refill, expiry)
    cl,                \* per client: its position in consume() on the redis path
    store_hist,        \* history, per redis key: creation time and admitted calls
    \* ---- RateLimiterMiddleware (in-memory backend) ----------------------
    default_limit,     \* self.default_limit
    endpoint_limits,   \* self.endpoint_limits: endpoint -> RateLimitConfig
    enable_per_client, \* self.enable_per_client
    limiter_buckets,   \* self._buckets of the middleware: name -> TokenBucket
    response,          \* what the last dispatch() returned or raised
    sink,              \* app.commons.metrics as dispatch() finds it
    requests,          \* dispatch() calls made so far
    last_dispatch,     \* history, per bucket key: its last request and whether it followed a refusal
    \* ---- CircuitBreakerManager -----------------------------------------
    breakers,          \* self._breakers: service name -> CircuitBreaker
    got,               \* what the last get_breaker() returned
    \* ---- @Contract -----------------------------------------------------
    ctx,               \* the RustMachine of the wrapper call in progress or last made
    initial_state,     \* initial_state of that call
    wrapper,           \* position of the wrapper: idle, or running the function
    outcome,           \* what the last wrapper call returned or raised
    contract_calls     \* wrapper calls made so far

breakerVars == <<config, metrics_available, state, stats, gauge, lock, pc, call,
                 reset_pending, calls, streak, ho_succ, ho_invoked, opened_count,
                 just_reset>>
bucketVars == <<capacity, refill_rate, redis_client, buckets, ret, consumed,
               key_hist, th, store, cl, store_hist>>
middlewareVars == <<default_limit, endpoint_limits, enable_per_client,
                   limiter_buckets, response, sink, requests, last_dispatch>>
managerVars == <<breakers, got>>
contractVars == <<ctx, initial_state, wrapper, outcome, contract_calls>>
serviceVars == <<middlewareVars, managerVars, contractVars>>
vars == <<now, breakerVars, bucketVars, serviceVars>>

\* ------------------------------------------------------------------ bounds
MaxTime == 2
MaxBucketTime == 3
MaxDrift == 1
MaxCalls == 3
MaxLiveCalls == 2
MaxInvoked == 3
MaxConsumes == 3
MaxScenarioTime == 5
MaxScenarioConsumes == 61
MaxThreadTime == 2
MaxThreadCalls == 3
MaxRedisTime == 2
MaxRedisCalls == 3
MaxMiddlewareTime == 60
MaxRequests == 3
MaxGets == 3
MaxManagedCalls == 2
MaxBackendsTime == 7200
MaxBackendsCalls == 4
MaxContractCalls == 3

\* configurations and callers the model is run with
FailureThresholds == {1, 2}
SuccessThresholds == {1, 2}
Timeouts == {1, 2}
Tasks == {1, 2}
TickSeconds == {30, 60}
NoTask == 0
None == -1

Max(a, b) == IF a >= b THEN a ELSE b
Min(a, b) == IF a <= b THEN a ELSE b

\* ------------------------------------------------------- exceptions raised
\* An exception is <<type, origin>>: two exceptions of the same type raised at
\* different places are different objects.
NoError == <<"None", "None">>
OpErrorTypes == {"ConnectionError", "KeyError"}
OpError(ty) == <<ty, "operation">>
LabelsError == <<"ValueError", "metrics">>

\* isinstance(e, cls) for the classes used here, all derived from Exception
IsInstance(e, cls) ==
    \/ e[1] = cls
    \/ cls = "Exception"
          /\ e[1] \in {"ConnectionError", "KeyError", "ValueError", "TimeoutError"}

ExpectedExceptions == {"Exception", "ConnectionError"}

\* ------------------------------------------------------------ breaker data
CLOSED == "closed"
OPEN == "open"
HALF_OPEN == "half_open"

CircuitBreakerStats ==
    [failures |-> 0, successes |-> 0, total_requests |-> 0, state_changes |-> 0,
     last_failure_time |-> None, last_success_time |-> None, opened_at |-> None]

CircuitBreakerConfig ==
    [failure_threshold : FailureThresholds,
     success_threshold : SuccessThresholds,
     timeout_seconds   : Timeouts,
     expected_exception : ExpectedExceptions]

\* Label names the failures counter is declared with, and the label names
\* call() passes to it.
FailuresCounterLabels == {"service_name"}
FailuresEmitLabels == {"service_name", "error_type"}

\* metric.labels(**kw) raises ValueError unless kw names exactly the declared labels
LabelsRaises(declared, passed) == declared # passed

\* _update_metrics: the gauge value after a change to phase st
UpdateMetrics(st, g) ==
    IF ~metrics_available THEN g
    ELSE CASE st = CLOSED -> 0
           [] st = OPEN -> 1
           [] st = HALF_OPEN -> 2

\* The breaker as a value [state, stats, gauge]; the transition functions map
\* one such value to the next.
Breaker == [state |-> state, stats |-> stats, gauge |-> gauge]

\* _transition_to_open that records opened_at only the first time
TransitionToOpenKeepOpenedAt(b, t) ==
    IF b.state # OPEN
    THEN [state |-> OPEN,
          stats |-> [b.stats EXCEPT
                        !.opened_at = IF @ = None THEN t ELSE @,
                        !.state_changes = @ + 1],
          gauge |-> UpdateMetrics(OPEN, b.gauge)]
    ELSE b

\* _transition_to_open that does not record opened_at
TransitionToOpenNoTimestamp(b, t) ==
    IF b.state # OPEN
    THEN [state |-> OPEN,
          stats |-> [b.stats EXCEPT !.state_changes = @ + 1],
          gauge |-> UpdateMetrics(OPEN, b.gauge)]
    ELSE b

\* _transition_to_open that only opens a CLOSED breaker
TransitionToOpenFromClosedOnly(b, t) ==
    IF b.state = CLOSED
    THEN [state |-> OPEN,
          stats |-> [b.stats EXCEPT !.opened_at = t, !.state_changes = @ + 1],
          gauge |-> UpdateMetrics(OPEN, b.gauge)]
    ELSE b

TransitionToOpen(b, t) ==
    IF b.state # OPEN
    THEN [state |-> OPEN,
          stats |-> [b.stats EXCEPT !.opened_at = t, !.state_changes = @ + 1],
          gauge |-> UpdateMetrics(OPEN, b.gauge)]
    ELSE b

\* _transition_to_half_open that keeps the success counter
TransitionToHalfOpenKeepSuccesses(b) ==
    IF b.state # HALF_OPEN
    THEN [state |-> HALF_OPEN,
          stats |-> [b.stats EXCEPT !.state_changes = @ + 1],
          gauge |-> UpdateMetrics(HALF_OPEN, b.gauge)]
    ELSE b

TransitionToHalfOpen(b) ==
    IF b.state # HALF_OPEN
    THEN [state |-> HALF_OPEN,
          stats |-> [b.stats EXCEPT !.successes = 0, !.state_changes = @ + 1],
          gauge |-> UpdateMetrics(HALF_OPEN, b.gauge)]
    ELSE b

\* _transition_to_closed that forgets to zero the failure counter
TransitionToClosedKeepFailures(b) ==
    IF b.state # CLOSED
    THEN [state |-> CLOSED,
          stats |-> [b.stats EXCEPT !.state_changes = @ + 1],
          gauge |-> UpdateMetrics(CLOSED, b.gauge)]
    ELSE b

TransitionToClosed(b) ==
    IF b.state # CLOSED
    THEN [state |-> CLOSED,
          stats |-> [b.stats EXCEPT !.failures = 0, !.state_changes = @ + 1],
          gauge |-> UpdateMetrics(CLOSED, b.gauge)]
    ELSE b

\* _should_attempt_recovery with a strict comparison
ShouldAttemptRecoveryStrict(b, t) ==
    IF b.state # OPEN THEN FALSE
    ELSE IF b.stats.opened_at = None THEN FALSE
    ELSE (t - b.stats.opened_at) > config.timeout_seconds

\* a recovery check that does not look at the phase
ShouldAttemptRecoveryAnyPhase(b, t) ==
    IF b.stats.opened_at = None THEN FALSE
    ELSE (t - b.stats.opened_at) >= config.timeout_seconds

\* a recovery check that waits twice the timeout
ShouldAttemptRecoveryLate(b, t) ==
    IF b.state # OPEN THEN FALSE
    ELSE IF b.stats.opened_at = None THEN FALSE
    ELSE (t - b.stats.opened_at) >= 2 * config.timeout_seconds

\* a recovery check that never lets a probe through
ShouldAttemptRecoveryNever(b, t) == FALSE

ShouldAttemptRecovery(b, t) ==
    IF b.state # OPEN THEN FALSE
    ELSE IF b.stats.opened_at = None THEN FALSE
    ELSE (t - b.stats.opened_at) >= config.timeout_seconds

\* an `except` clause that catches every exception
ClassifiedAny(e) == TRUE

\* `except self.config.expected_exception as e` catches e
Classified(e) == IsInstance(e, config.expected_exception)

\* a _reset() that only forces the phase and keeps the statistics
ResetBreakerKeepStats(b) ==
    [state |-> CLOSED, stats |-> b.stats, gauge |-> UpdateMetrics(CLOSED, b.gauge)]

\* the body of _reset(): state = CLOSED, stats = CircuitBreakerStats()
ResetBreaker(b) ==
    [state |-> CLOSED, stats |-> CircuitBreakerStats,
     gauge |-> UpdateMetrics(CLOSED, b.gauge)]

\* retry_after of the CircuitBreakerError: None when opened_at is falsy
RetryAfter(b, t) ==
    IF b.stats.opened_at # None /\ b.stats.opened_at # 0
    THEN Max(0, config.timeout_seconds - (t - b.stats.opened_at))
    ELSE None

\* ---------------------------------------------------------- per-task record
IdleCall ==
    [result |-> "none", error |-> NoError, op_error |-> NoError,
     retry_after |-> None, adm_phase |-> "none", probe |-> FALSE,
     arrived_win |-> 0]

\* number of entries into OPEN made by a step from b1 to b2
Opened(b1, b2) == IF b1.state # OPEN /\ b2.state = OPEN THEN 1 ELSE 0

SetBreaker(b) ==
    /\ state' = b.state
    /\ stats' = b.stats
    /\ gauge' = b.gauge

\* ---------------------------------------------------------------- actions
Tick ==
    /\ now < MaxTime
    /\ now' = now + 1
    /\ UNCHANGED <<breakerVars, bucketVars, serviceVars>>

\* A task enters call(): `async with self._lock` waits for the lock.
CallArrive(t) ==
    /\ pc[t] = "idle"
    /\ calls < MaxCalls
    /\ calls' = calls + 1
    /\ pc' = [pc EXCEPT ![t] = "waiting"]
    /\ call' = [call EXCEPT ![t] =
                  [IdleCall EXCEPT !.arrived_win =
                      IF ShouldAttemptRecovery(Breaker, now) THEN opened_count ELSE 0]]
    /\ UNCHANGED <<now, config, metrics_available, state, stats, gauge, lock,
                   reset_pending, streak, ho_succ, ho_invoked, opened_count,
                   just_reset,
                   bucketVars, serviceVars>>

\* A task enters call() with callers that never stop coming: a call arriving
\* while the breaker is not Closed is not counted against the number of calls.
CallArriveLive(t) ==
    /\ pc[t] = "idle"
    /\ state # CLOSED \/ calls < MaxLiveCalls
    /\ calls' = IF state # CLOSED THEN calls ELSE calls + 1
    /\ pc' = [pc EXCEPT ![t] = "waiting"]
    /\ call' = [call EXCEPT ![t] =
                  [IdleCall EXCEPT !.arrived_win =
                      IF ShouldAttemptRecovery(Breaker, now) THEN opened_count ELSE 0]]
    /\ UNCHANGED <<now, config, metrics_available, state, stats, gauge, lock,
                   reset_pending, streak, ho_succ, ho_invoked, opened_count,
                   just_reset,
                   bucketVars, serviceVars>>

\* The task gets the lock and runs the admission part of call() (lines
\* 183-200): lazy recovery check, then reject if still OPEN, else invoke the
\* operation while holding the lock.  d is the time that passes between the
\* clock read of the recovery check and the clock read of the rejection.
CallAcquire(t, d) ==
    /\ pc[t] = "waiting"
    /\ lock = NoTask
    /\ now + d <= MaxTime
    /\ LET recover == ShouldAttemptRecovery(Breaker, now)
           b1 == IF recover THEN TransitionToHalfOpen(Breaker) ELSE Breaker
       IN  /\ SetBreaker(b1)
           /\ ho_succ' = IF b1.state = HALF_OPEN /\ state # HALF_OPEN THEN 0 ELSE ho_succ
           /\ ho_invoked' = IF b1.state # HALF_OPEN THEN ho_invoked
                            ELSE IF state # HALF_OPEN THEN 1
                            ELSE IF ho_invoked < MaxInvoked THEN ho_invoked + 1
                            ELSE ho_invoked
           /\ IF b1.state = OPEN
              THEN /\ now' = now + d
                   /\ pc' = [pc EXCEPT ![t] = "idle"]
                   /\ lock' = NoTask
                   /\ call' = [call EXCEPT ![t].result = "rejected",
                                           ![t].retry_after = RetryAfter(b1, now + d)]
              ELSE /\ d = 0
                   /\ now' = now
                   /\ pc' = [pc EXCEPT ![t] = "executing"]
                   /\ lock' = t
                   /\ call' = [call EXCEPT ![t].adm_phase = b1.state,
                                           ![t].probe = recover]
    /\ just_reset' = FALSE
    /\ UNCHANGED <<config, metrics_available, reset_pending, calls, streak,
                   opened_count, bucketVars, serviceVars>>

\* The operation returns normally (lines 209-221).
CallSuccess(t) ==
    /\ pc[t] = "executing"
    /\ LET s1 == [stats EXCEPT !.successes = @ + 1, !.total_requests = @ + 1,
                               !.last_success_time = now]
           b1 == [state |-> state, stats |-> s1, gauge |-> gauge]
           b2 == IF state = HALF_OPEN /\ s1.successes >= config.success_threshold
                 THEN TransitionToClosed(b1) ELSE b1
       IN  /\ SetBreaker(b2)
           /\ ho_succ' = IF state = HALF_OPEN THEN ho_succ + 1 ELSE ho_succ
           /\ ho_invoked' = IF b2.state = HALF_OPEN THEN ho_invoked ELSE 0
    /\ streak' = 0
    /\ pc' = [pc EXCEPT ![t] = "idle"]
    /\ lock' = NoTask
    /\ call' = [call EXCEPT ![t].result = "returned"]
    /\ just_reset' = FALSE
    /\ UNCHANGED <<now, config, metrics_available, reset_pending, calls,
                   opened_count, bucketVars, serviceVars>>

\* The operation raises an exception of type ty (lines 223-245).  An exception
\* that is not an instance of expected_exception leaves the `async with` block
\* untouched.  d is the time between the clock read of last_failure_time and
\* the clock read of _transition_to_open.
CallRaise(t, ty, d) ==
    /\ pc[t] = "executing"
    /\ now + d <= MaxTime
    /\ LET e == OpError(ty)
           s1 == [stats EXCEPT !.failures = @ + 1, !.total_requests = @ + 1,
                               !.last_failure_time = now]
           b1 == [state |-> state, stats |-> s1, gauge |-> gauge]
           b2 == IF s1.failures >= config.failure_threshold
                 THEN TransitionToOpen(b1, now + d) ELSE b1
           b3 == IF b2.state = HALF_OPEN THEN TransitionToOpen(b2, now + d) ELSE b2
       IN  IF ~Classified(e)
           THEN /\ d = 0
                /\ call' = [call EXCEPT ![t].result = "raised", ![t].error = e,
                                        ![t].op_error = e]
                /\ UNCHANGED <<now, state, stats, gauge, streak, opened_count>>
           ELSE IF metrics_available
                   /\ LabelsRaises(FailuresCounterLabels, FailuresEmitLabels)
           THEN /\ d = 0
                /\ SetBreaker(b1)
                /\ streak' = streak + 1
                /\ call' = [call EXCEPT ![t].result = "raised",
                                        ![t].error = LabelsError,
                                        ![t].op_error = e]
                /\ UNCHANGED <<now, opened_count>>
           ELSE /\ SetBreaker(b3)
                /\ now' = now + d
                /\ streak' = streak + 1
                /\ opened_count' = opened_count + Opened(b1, b3)
                /\ call' = [call EXCEPT ![t].result = "raised", ![t].error = e,
                                        ![t].op_error = e]
    /\ pc' = [pc EXCEPT ![t] = "idle"]
    /\ lock' = NoTask
    /\ just_reset' = FALSE
    /\ ho_invoked' = IF state' = HALF_OPEN THEN ho_invoked ELSE 0
    /\ UNCHANGED <<config, metrics_available, reset_pending, calls, ho_succ,
                   bucketVars, serviceVars>>

\* reset() called while the event loop is running (lines 259-261): it creates
\* the _reset() task and returns ...
ResetSchedule ==
    /\ ~reset_pending
    /\ reset_pending' = TRUE
    /\ UNCHANGED <<now, config, metrics_available, state, stats, gauge, lock, pc,
                   call, calls, streak, ho_succ, ho_invoked, opened_count,
                   just_reset,
                   bucketVars, serviceVars>>

\* ... and the task takes the lock later and reinitialises the breaker
\* (lines 249-254).
ResetRun ==
    /\ reset_pending
    /\ lock = NoTask
    /\ reset_pending' = FALSE
    /\ SetBreaker(ResetBreaker(Breaker))
    /\ streak' = 0
    /\ ho_succ' = 0
    /\ ho_invoked' = 0
    /\ just_reset' = TRUE
    /\ UNCHANGED <<now, config, metrics_available, lock, pc, call, calls,
                   opened_count, bucketVars, serviceVars>>

\* reset() called with no event loop running (lines 262-266): _reset() runs to
\* completion before reset() returns.  No call() is in progress then.
ResetSync ==
    /\ \A t \in Tasks : pc[t] = "idle"
    /\ ~reset_pending
    /\ lock = NoTask
    /\ SetBreaker(ResetBreaker(Breaker))
    /\ streak' = 0
    /\ ho_succ' = 0
    /\ ho_invoked' = 0
    /\ just_reset' = TRUE
    /\ UNCHANGED <<now, config, metrics_available, lock, pc, call, calls,
                   reset_pending, opened_count, bucketVars, serviceVars>>

\* ------------------------------------------------------------ token bucket
\* One token (the 1.0 of `tokens >= 1.0`) in fixed-point units.
TokenUnit == 2
Keys == {"a", "b"}
NoBucket == <<>>

\* capacity in whole tokens (capacity: int) and refill_rate in units per tick,
\* as the constructor accepts them: it validates neither
Capacities == {-1, 0, 1, 2}
RefillRates == {-1, 0, 1, 2}
ValidConfig == capacity > 0 /\ refill_rate > 0

\* Python int(x) of a fixed-point x: truncation toward zero
IntTrunc(x) == IF x >= 0 THEN x \div TokenUnit ELSE -((-x) \div TokenUnit)

\* redis_client: None, or a client every call of which raises
NoRedis == "none"
RedisRaising == "raising"
RedisErrorTypes == {"ConnectionError", "TimeoutError"}
RedisError(ty) == <<ty, "redis">>

\* a consume() that lets the error of the redis client through
RedisErrorCaughtNever(e) == FALSE

\* `except Exception` of consume()
RedisErrorCaught(e) == IsInstance(e, "Exception")

\* what the last consume() returned or raised, with the entry of the key it
\* found, the tokens its first _get_tokens_memory returned and the three clock
\* reads of its memory path
NoReturn == [key |-> "", allowed |-> FALSE, remaining |-> 0, raised |-> NoError,
             stored |-> NoBucket, refilled |-> 0, reads |-> <<0, 0, 0>>]

\* per key: the clock read at which the key was created and the number of
\* consume() calls made on it
NoHistory == [created |-> None, calls |-> 0]

\* a new key starts with no tokens
GetTokensMemoryStartEmpty(bk, key, t) ==
    IF bk[key] = NoBucket
    THEN [buckets |-> [bk EXCEPT ![key] = <<0, t>>], tokens |-> 0]
    ELSE LET elapsed == t - bk[key][2]
             tokens == Min(capacity, bk[key][1] + (elapsed * refill_rate))
         IN  [buckets |-> [bk EXCEPT ![key] = <<tokens, t>>], tokens |-> tokens]

\* the refill adds one unit less than elapsed * refill_rate
GetTokensMemoryShortRefill(bk, key, t) ==
    IF bk[key] = NoBucket
    THEN [buckets |-> [bk EXCEPT ![key] = <<capacity, t>>], tokens |-> capacity]
    ELSE LET elapsed == t - bk[key][2]
             tokens == Min(capacity, bk[key][1] + (elapsed * refill_rate) - 1)
         IN  [buckets |-> [bk EXCEPT ![key] = <<tokens, t>>], tokens |-> tokens]

\* _get_tokens_memory without the min(capacity, ...) of the refill
GetTokensMemoryUncapped(bk, key, t) ==
    IF bk[key] = NoBucket
    THEN [buckets |-> [bk EXCEPT ![key] = <<capacity, t>>], tokens |-> capacity]
    ELSE LET tokens == bk[key][1] + ((t - bk[key][2]) * refill_rate)
         IN  [buckets |-> [bk EXCEPT ![key] = <<tokens, t>>], tokens |-> tokens]

\* _get_tokens_memory(key) with time.time() = t, on the mapping bk:
\* the new mapping and the tokens returned
GetTokensMemory(bk, key, t) ==
    IF bk[key] = NoBucket
    THEN [buckets |-> [bk EXCEPT ![key] = <<capacity, t>>], tokens |-> capacity]
    ELSE LET elapsed == t - bk[key][2]
             tokens == Min(capacity, bk[key][1] + (elapsed * refill_rate))
         IN  [buckets |-> [bk EXCEPT ![key] = <<tokens, t>>], tokens |-> tokens]

\* _consume_token_memory(key): t1 is the clock read of _get_tokens_memory,
\* t2 the clock read of the write-back
ConsumeTokenMemory(bk, key, t1, t2) ==
    LET g == GetTokensMemory(bk, key, t1)
    IN  IF g.tokens >= TokenUnit
        THEN [buckets |-> [g.buckets EXCEPT ![key] = <<g.tokens - TokenUnit, t2>>],
              allowed |-> TRUE]
        ELSE [buckets |-> g.buckets, allowed |-> FALSE]

\* the clock advances between two consume calls
BucketTick ==
    /\ now < MaxBucketTime
    /\ now' = now + 1
    /\ UNCHANGED <<breakerVars, bucketVars, serviceVars>>

\* the memory path of consume(key): the clock reads t1 in the first
\* _get_tokens_memory, t2 at the write-back and t3 in the second
\* _get_tokens_memory
ConsumeMemory(key, t1, t2, t3) ==
    LET c == ConsumeTokenMemory(buckets, key, t1, t2)
        g == GetTokensMemory(c.buckets, key, t3)
    IN  /\ buckets' = g.buckets
        /\ ret' = [key |-> key, allowed |-> c.allowed,
                   remaining |-> IntTrunc(g.tokens), raised |-> NoError,
                   stored |-> buckets[key],
                   refilled |-> GetTokensMemory(buckets, key, t1).tokens,
                   reads |-> <<t1, t2, t3>>]
        /\ key_hist' = [key_hist EXCEPT ![key] =
                           [created |-> IF @.created = None THEN t1 ELSE @.created,
                            calls |-> @.calls + 1]]
        /\ now' = t3
        /\ consumed' = consumed + 1
        /\ UNCHANGED <<capacity, refill_rate, redis_client, th, store, cl, store_hist,
                     breakerVars, serviceVars>>

\* consume(key) on the in-memory backend (redis_client is None): the clock
\* advances by d1 between the first and the second clock read of the call and
\* by d2 between the second and the third.
Consume(key, d1, d2) ==
    /\ redis_client = NoRedis
    /\ consumed < MaxConsumes
    /\ now + d1 + d2 <= MaxBucketTime
    /\ ConsumeMemory(key, now, now + d1, now + d1 + d2)

\* consume(key) with a redis client whose eval raises an error of type ty in
\* _consume_token_redis; the failed attempt takes d0
ConsumeFallback(key, ty, d0, d1, d2) ==
    /\ redis_client = RedisRaising
    /\ consumed < MaxConsumes
    /\ now + d0 + d1 + d2 <= MaxBucketTime
    /\ IF RedisErrorCaught(RedisError(ty))
       THEN ConsumeMemory(key, now + d0, now + d0 + d1, now + d0 + d1 + d2)
       ELSE /\ ret' = [NoReturn EXCEPT !.key = key, !.raised = RedisError(ty)]
            /\ now' = now + d0
            /\ consumed' = consumed + 1
            /\ UNCHANGED <<capacity, refill_rate, redis_client, buckets, key_hist,
                           th, store, cl, store_hist, breakerVars,
                   serviceVars>>

\* RateLimitConfig(requests_per_minute, burst_capacity); requests_per_second
\* (requests_per_minute / 60.0) is the fraction <<n, 60>> of token units per
\* second, so that a rate below one unit per second is not lost
RequestsPerMinute == {30, 60}
BurstCapacities == {None, 0, 10}
RateLimitConfig(requests_per_minute, burst_capacity) ==
    [requests_per_minute |-> requests_per_minute,
     requests_per_second |-> <<requests_per_minute * TokenUnit, 60>>,
     burst_capacity |-> IF burst_capacity # None /\ burst_capacity # 0
                        THEN burst_capacity ELSE requests_per_minute]

\* one second passes between two requests of a burst scenario
ScenarioTick ==
    /\ now < MaxScenarioTime
    /\ now' = now + 1
    /\ UNCHANGED <<breakerVars, bucketVars, serviceVars>>

\* consume(key) of a bucket built from a RateLimitConfig, in-memory backend
ScenarioConsume(key, d1, d2) ==
    /\ redis_client = NoRedis
    /\ consumed < MaxScenarioConsumes
    /\ now + d1 + d2 <= MaxScenarioTime
    /\ ConsumeMemory(key, now, now + d1, now + d1 + d2)

\* ------------------------------------------- consume() called from threads
\* Threads calling consume() of one TokenBucket without redis on the same key;
\* a thread switch can fall between any two of the steps below.
Threads == {1, 2}
ThreadKey == "a"
IdleThread == [pc |-> "idle", pass |-> 0, now |-> 0, tokens |-> 0,
               last_refill |-> 0, allowed |-> FALSE]

\* where a thread continues after _get_tokens_memory returns: in
\* _consume_token_memory (first pass) or in consume (second pass)
AfterGetTokens(pass) == IF pass = 1 THEN "test" ELSE "return"

ThreadTick ==
    /\ now < MaxThreadTime
    /\ now' = now + 1
    /\ UNCHANGED <<breakerVars, bucketVars, serviceVars>>

\* consume(key) is entered and calls _consume_token_memory, which calls
\* _get_tokens_memory
ThreadCall(t) ==
    /\ th[t].pc = "idle"
    /\ consumed < MaxThreadCalls
    /\ th' = [th EXCEPT ![t] = [IdleThread EXCEPT !.pc = "now", !.pass = 1]]
    /\ consumed' = consumed + 1
    /\ UNCHANGED <<now, capacity, refill_rate, redis_client, buckets, ret,
                   key_hist, store, cl, store_hist, breakerVars,
                   serviceVars>>

\* now = time.time()
GetTokensNow(t) ==
    /\ th[t].pc = "now"
    /\ th' = [th EXCEPT ![t].now = now, ![t].pc = "check"]
    /\ UNCHANGED <<now, capacity, refill_rate, redis_client, buckets, ret,
                   consumed, key_hist, store, cl, store_hist, breakerVars,
                   serviceVars>>

\* if key not in self._buckets: store (capacity, now) and return it
GetTokensCheck(t) ==
    /\ th[t].pc = "check"
    /\ IF buckets[ThreadKey] = NoBucket
       THEN /\ buckets' = [buckets EXCEPT ![ThreadKey] = <<capacity, th[t].now>>]
            /\ th' = [th EXCEPT ![t].tokens = capacity,
                                ![t].pc = AfterGetTokens(th[t].pass)]
       ELSE /\ th' = [th EXCEPT ![t].pc = "load"]
            /\ UNCHANGED buckets
    /\ UNCHANGED <<now, capacity, refill_rate, redis_client, ret, consumed,
                   key_hist, store, cl, store_hist, breakerVars,
                   serviceVars>>

\* tokens, last_refill = self._buckets[key]
GetTokensLoad(t) ==
    /\ th[t].pc = "load"
    /\ th' = [th EXCEPT ![t].tokens = buckets[ThreadKey][1],
                        ![t].last_refill = buckets[ThreadKey][2],
                        ![t].pc = "store"]
    /\ UNCHANGED <<now, capacity, refill_rate, redis_client, buckets, ret,
                   consumed, key_hist, store, cl, store_hist, breakerVars,
                   serviceVars>>

\* the refill and self._buckets[key] = (tokens, now)
GetTokensStore(t) ==
    /\ th[t].pc = "store"
    /\ LET elapsed == th[t].now - th[t].last_refill
           tokens == Min(capacity, th[t].tokens + (elapsed * refill_rate))
       IN  /\ buckets' = [buckets EXCEPT ![ThreadKey] = <<tokens, th[t].now>>]
           /\ th' = [th EXCEPT ![t].tokens = tokens,
                               ![t].pc = AfterGetTokens(th[t].pass)]
    /\ UNCHANGED <<now, capacity, refill_rate, redis_client, ret, consumed,
                   key_hist, store, cl, store_hist, breakerVars,
                   serviceVars>>

\* back in _consume_token_memory: if tokens >= 1.0 store
\* (tokens - 1.0, time.time()) and return True, else return False; consume
\* then calls _get_tokens_memory again
ConsumeTokenTest(t) ==
    /\ th[t].pc = "test"
    /\ IF th[t].tokens >= TokenUnit
       THEN /\ buckets' = [buckets EXCEPT
                              ![ThreadKey] = <<th[t].tokens - TokenUnit, now>>]
            /\ th' = [th EXCEPT ![t].allowed = TRUE, ![t].pc = "now",
                                ![t].pass = 2]
       ELSE /\ th' = [th EXCEPT ![t].allowed = FALSE, ![t].pc = "now",
                                ![t].pass = 2]
            /\ UNCHANGED buckets
    /\ UNCHANGED <<now, capacity, refill_rate, redis_client, ret, consumed,
                   key_hist, store, cl, store_hist, breakerVars,
                   serviceVars>>

\* return (allowed, int(tokens))
ThreadReturn(t) ==
    /\ th[t].pc = "return"
    /\ ret' = [NoReturn EXCEPT !.key = ThreadKey, !.allowed = th[t].allowed,
                               !.remaining = IntTrunc(th[t].tokens)]
    /\ th' = [th EXCEPT ![t] = IdleThread]
    /\ UNCHANGED <<now, capacity, refill_rate, redis_client, buckets, consumed,
                   key_hist, store, cl, store_hist, breakerVars,
                   serviceVars>>

\* --------------------------------------------------- consume() over redis
\* Clients (tasks or processes) whose TokenBucket has the same capacity,
\* refill_rate and redis_key_prefix and a working redis client.  The server
\* runs one script at a time; a script runs with the timestamp its client read
\* when it sent the call.
Clients == {1, 2}
RedisWorking == "working"
RedisKeyPrefix == "rate_limit:"
RedisKey(key) == RedisKeyPrefix \o key
RedisKeys == {RedisKey(k) : k \in Keys}
ExpireSeconds == 3600
IdleClient == [pc |-> "idle", key |-> "", ts |-> 0, allowed |-> FALSE]
NoStoreHistory == [created |-> None, admitted |-> 0]

\* HMGET key tokens last_refill: nothing for a missing or expired key
RedisBucket(st, rk, t) ==
    IF st[rk] = NoBucket \/ st[rk][3] <= t THEN NoBucket ELSE st[rk]

\* the refill both scripts start with, for ARGV[3] = ts
ScriptRefill(st, rk, ts, t) ==
    LET bucket == RedisBucket(st, rk, t)
        tokens == IF bucket = NoBucket THEN capacity ELSE bucket[1]
        last_refill == IF bucket = NoBucket THEN ts ELSE bucket[2]
        elapsed == ts - last_refill
    IN  Min(capacity, tokens + (elapsed * refill_rate))

\* a consume script that admits without taking the token
ConsumeScriptNoDeduct(st, rk, ts, t) ==
    LET tokens == ScriptRefill(st, rk, ts, t)
    IN  [store |-> [st EXCEPT ![rk] = <<tokens, ts, t + ExpireSeconds>>],
         result |-> IF tokens >= TokenUnit THEN 1 ELSE 0]

\* the script of _consume_token_redis run by the server at time t with
\* ARGV[3] = ts: the new hashes and the script's reply
ConsumeScript(st, rk, ts, t) ==
    LET tokens == ScriptRefill(st, rk, ts, t)
    IN  IF tokens >= TokenUnit
        THEN [store |-> [st EXCEPT
                           ![rk] = <<tokens - TokenUnit, ts, t + ExpireSeconds>>],
              result |-> 1]
        ELSE [store |-> [st EXCEPT ![rk] = <<tokens, ts, t + ExpireSeconds>>],
              result |-> 0]

\* the script of _get_tokens_redis; its reply {tokens, now} reaches the client
\* as integers (a Lua number becomes an integer reply)
GetScript(st, rk, ts, t) ==
    LET tokens == ScriptRefill(st, rk, ts, t)
    IN  [store |-> [st EXCEPT ![rk] = <<tokens, ts, t + ExpireSeconds>>],
         tokens |-> IntTrunc(tokens) * TokenUnit]

RedisTick ==
    /\ now < MaxRedisTime
    /\ now' = now + 1
    /\ UNCHANGED <<breakerVars, bucketVars, serviceVars>>

\* consume(key) with a redis client: _consume_token_redis reads the clock and
\* sends its script
RedisCall(c, key) ==
    /\ cl[c].pc = "idle"
    /\ redis_client = RedisWorking
    /\ consumed < MaxRedisCalls
    /\ cl' = [cl EXCEPT ![c] = [pc |-> "consume_sent", key |-> key, ts |-> now,
                                allowed |-> FALSE]]
    /\ consumed' = consumed + 1
    /\ UNCHANGED <<now, capacity, refill_rate, redis_client, buckets, ret,
                   key_hist, th, store, store_hist, breakerVars,
                   serviceVars>>

\* the server runs the consume script of client c
RedisEvalConsume(c) ==
    /\ cl[c].pc = "consume_sent"
    /\ LET rk == RedisKey(cl[c].key)
           fresh == RedisBucket(store, rk, now) = NoBucket
           r == ConsumeScript(store, rk, cl[c].ts, now)
           h == IF fresh THEN [created |-> cl[c].ts, admitted |-> 0]
                ELSE store_hist[rk]
       IN  /\ store' = r.store
           /\ cl' = [cl EXCEPT ![c].pc = "consume_done",
                               ![c].allowed = (r.result # 0)]
           /\ store_hist' = [store_hist EXCEPT
                               ![rk] = [h EXCEPT !.admitted = @ + r.result]]
    /\ UNCHANGED <<now, capacity, refill_rate, redis_client, buckets, ret,
                   consumed, key_hist, th, breakerVars, serviceVars>>

\* the reply arrives: allowed = bool(result); _get_tokens_redis reads the
\* clock and sends its script
RedisSendGet(c) ==
    /\ cl[c].pc = "consume_done"
    /\ cl' = [cl EXCEPT ![c].pc = "get_sent", ![c].ts = now]
    /\ UNCHANGED <<now, capacity, refill_rate, redis_client, buckets, ret,
                   consumed, key_hist, th, store, store_hist, breakerVars,
                   serviceVars>>

\* the server runs the get script of client c, and consume returns
\* (allowed, int(tokens))
RedisEvalGet(c) ==
    /\ cl[c].pc = "get_sent"
    /\ LET rk == RedisKey(cl[c].key)
           fresh == RedisBucket(store, rk, now) = NoBucket
           r == GetScript(store, rk, cl[c].ts, now)
       IN  /\ store' = r.store
           /\ store_hist' = IF fresh
                             THEN [store_hist EXCEPT
                                     ![rk] = [created |-> cl[c].ts, admitted |-> 0]]
                             ELSE store_hist
           /\ ret' = [NoReturn EXCEPT !.key = cl[c].key,
                                      !.allowed = cl[c].allowed,
                                      !.remaining = IntTrunc(r.tokens)]
    /\ cl' = [cl EXCEPT ![c] = IdleClient]
    /\ UNCHANGED <<now, capacity, refill_rate, redis_client, buckets, consumed,
                   key_hist, th, breakerVars, serviceVars>>

\* The eval of _get_tokens_redis raises an error of type ty (line 174, after
\* _consume_token_redis has returned): `except Exception` of consume() runs the
\* memory path, with the clock reads t1 = now, t2 = now + d1 and
\* t3 = now + d1 + d2, and returns its result (lines 176-181).  The client's
\* record keeps the decision redis had made for the call.
RedisGetRaise(c, ty, d1, d2) ==
    /\ cl[c].pc = "consume_done"
    /\ now + d1 + d2 <= MaxRedisTime
    /\ LET key == cl[c].key
           m == ConsumeTokenMemory(buckets, key, now, now + d1)
           g == GetTokensMemory(m.buckets, key, now + d1 + d2)
       IN  IF RedisErrorCaught(RedisError(ty))
           THEN /\ buckets' = g.buckets
                /\ ret' = [key |-> key, allowed |-> m.allowed,
                           remaining |-> IntTrunc(g.tokens), raised |-> NoError,
                           stored |-> buckets[key],
                           refilled |-> GetTokensMemory(buckets, key, now).tokens,
                           reads |-> <<now, now + d1, now + d1 + d2>>]
                /\ now' = now + d1 + d2
           ELSE /\ d1 = 0 /\ d2 = 0
                /\ ret' = [NoReturn EXCEPT !.key = key, !.raised = RedisError(ty)]
                /\ UNCHANGED <<now, buckets>>
    /\ cl' = [cl EXCEPT ![c].pc = "idle"]
    /\ UNCHANGED <<capacity, refill_rate, redis_client, consumed, key_hist, th,
                   store, store_hist, breakerVars, serviceVars>>

\* --------------------------------------------------- RateLimiterMiddleware
\* The middleware with redis_client = None: every TokenBucket it builds uses
\* its in-memory mapping.
Endpoints == {"/a", "/b"}
MetricsPath == "/metrics"
DefaultBucket == "default"

\* The client part of a request: X-Forwarded-For as the list of its comma
\* separated, stripped entries (<<>>: no such header), X-Real-IP ("": no such
\* header) and the host of request.client ("": request.client is None).
ClientHeaders ==
    {[forwarded_for |-> <<"10.0.0.1", "10.0.0.2">>, real_ip |-> "10.0.0.2",
      client |-> "10.0.0.2"],
     [forwarded_for |-> <<"", "10.0.0.2">>, real_ip |-> "10.0.0.2",
      client |-> "10.0.0.2"],
     [forwarded_for |-> <<>>, real_ip |-> "10.0.0.1", client |-> "10.0.0.2"],
     [forwarded_for |-> <<>>, real_ip |-> "", client |-> "10.0.0.1"],
     [forwarded_for |-> <<>>, real_ip |-> "", client |-> ""]}
Paths == Endpoints \cup {MetricsPath}
Request(path, headers) ==
    [path |-> path, forwarded_for |-> headers.forwarded_for,
     real_ip |-> headers.real_ip, client |-> headers.client]
Requests == {Request(path, headers) : path \in Paths, headers \in ClientHeaders}

\* _get_client_id(request)
GetClientId(req) ==
    IF req.forwarded_for # <<>> THEN Head(req.forwarded_for)
    ELSE IF req.real_ip # "" THEN req.real_ip
    ELSE IF req.client # "" THEN req.client
    ELSE "unknown"

\* a bucket key that ignores the client
GetBucketKeyScopeOnly(endpoint, client_id) == endpoint

\* _get_bucket_key(endpoint, client_id)
GetBucketKey(endpoint, client_id) ==
    IF enable_per_client /\ client_id # ""
    THEN endpoint \o ":" \o client_id
    ELSE endpoint

\* a dict: a function whose domain is the set of keys present
EmptyDict == <<>>
Put(d, k, v) == [j \in DOMAIN d \cup {k} |-> IF j = k THEN v ELSE d[j]]

\* the limits a middleware is configured with
LimitRequestsPerMinute == {1, 2}
DefaultLimits == {RateLimitConfig(rpm, None) : rpm \in LimitRequestsPerMinute}
EndpointLimits == {EmptyDict, [e \in {"/a"} |-> RateLimitConfig(2, 1)]}

\* TokenBucket(capacity = limit.burst_capacity,
\*             refill_rate = limit.requests_per_second, redis_key_prefix)
TokenBucket(limit, prefix) ==
    [capacity |-> limit.burst_capacity * TokenUnit,
     refill_rate |-> limit.requests_per_second,
     redis_key_prefix |-> prefix,
     buckets |-> EmptyDict]

\* a refill that adds half of elapsed * refill_rate
RefillHalf(elapsed, rate) == (elapsed * rate[1]) \div (2 * rate[2])

\* elapsed * self.refill_rate
Refill(elapsed, rate) == (elapsed * rate[1]) \div rate[2]

\* _get_tokens_memory(key) of the TokenBucket tb with time.time() = t: the
\* bucket afterwards and the tokens returned
BucketGetTokensMemory(tb, key, t) ==
    IF key \notin DOMAIN tb.buckets
    THEN [tb |-> [tb EXCEPT !.buckets = Put(@, key, <<tb.capacity, t>>)],
          tokens |-> tb.capacity]
    ELSE LET elapsed == t - tb.buckets[key][2]
             tokens == Min(tb.capacity,
                           tb.buckets[key][1] + Refill(elapsed, tb.refill_rate))
         IN  [tb |-> [tb EXCEPT !.buckets = Put(@, key, <<tokens, t>>)],
              tokens |-> tokens]

\* _consume_token_memory(key) of the TokenBucket tb
BucketConsumeTokenMemory(tb, key, t1, t2) ==
    LET g == BucketGetTokensMemory(tb, key, t1)
    IN  IF g.tokens >= TokenUnit
        THEN [tb |-> [g.tb EXCEPT !.buckets =
                                     Put(@, key, <<g.tokens - TokenUnit, t2>>)],
              allowed |-> TRUE]
        ELSE [tb |-> g.tb, allowed |-> FALSE]

\* consume(key) of the TokenBucket tb without redis client: the bucket
\* afterwards and the pair returned
BucketConsume(tb, key, t1, t2, t3) ==
    LET c == BucketConsumeTokenMemory(tb, key, t1, t2)
        g == BucketGetTokensMemory(c.tb, key, t3)
    IN  [tb |-> g.tb, allowed |-> c.allowed, remaining |-> IntTrunc(g.tokens)]

\* _init_buckets(): the default bucket, then one bucket per configured endpoint
InitBuckets(dflt, limits) ==
    [name \in {DefaultBucket} \cup DOMAIN limits |->
        IF name \in DOMAIN limits
        THEN TokenBucket(limits[name], "rate_limit:" \o name \o ":")
        ELSE TokenBucket(dflt, "rate_limit:")]

\* a dispatch() that serves every endpoint from the default bucket
ServingBucketAlwaysDefault(endpoint) == DefaultBucket

\* self._buckets.get(endpoint, self._buckets["default"]), as the name of the
\* bucket found
ServingBucket(endpoint) ==
    IF endpoint \in DOMAIN limiter_buckets THEN endpoint ELSE DefaultBucket

\* self.endpoint_limits.get(endpoint, self.default_limit)
LimitFor(endpoint) ==
    IF endpoint \in DOMAIN endpoint_limits
    THEN endpoint_limits[endpoint] ELSE default_limit

\* app.commons.metrics as dispatch() finds it: importable with working
\* metrics, not importable, or importable with emits that raise
Sinks == {"ok", "unavailable", "raising"}
SinkError(s) ==
    IF s = "unavailable" THEN <<"ImportError", "metrics">>
    ELSE IF s = "raising" THEN <<"ValueError", "metrics">>
    ELSE NoError

RetryAfterSeconds == 60

\* what dispatch() returned (status, headers) or raised, with the endpoint,
\* client id, bucket key, bucket and config it used; forwarded: call_next ran
NoResponse ==
    [path |-> "", client_id |-> "", key |-> "", served_by |-> "",
     status |-> 0, allowed |-> FALSE, forwarded |-> FALSE, limit |-> 0,
     remaining |-> 0, retry_after |-> 0, raised |-> NoError]

\* time passes between two requests
MiddlewareTick(dt) ==
    /\ now + dt <= MaxMiddlewareTime
    /\ now' = now + dt
    /\ UNCHANGED <<breakerVars, bucketVars, serviceVars>>

\* dispatch(request, call_next)
Dispatch(req) ==
    /\ requests < MaxRequests
    /\ requests' = requests + 1
    /\ IF req.path = MetricsPath
       THEN /\ response' = [NoResponse EXCEPT !.path = req.path, !.status = 200,
                                              !.forwarded = TRUE]
            /\ UNCHANGED <<limiter_buckets, last_dispatch>>
       ELSE LET endpoint == req.path
                limit == LimitFor(endpoint)
                client_id == IF enable_per_client THEN GetClientId(req) ELSE ""
                bucket_key == IF enable_per_client
                              THEN GetBucketKey(endpoint, client_id)
                              ELSE endpoint
                name == ServingBucket(endpoint)
                c == BucketConsume(limiter_buckets[name], bucket_key, now, now, now)
                seen == [NoResponse EXCEPT
                            !.path = req.path, !.client_id = client_id,
                            !.key = bucket_key, !.served_by = name,
                            !.allowed = c.allowed, !.forwarded = c.allowed]
            IN  /\ limiter_buckets' = [limiter_buckets EXCEPT ![name] = c.tb]
                /\ last_dispatch' =
                     Put(last_dispatch, bucket_key,
                         [allowed |-> c.allowed, at |-> now,
                          after_refusal |->
                              /\ bucket_key \in DOMAIN last_dispatch
                              /\ ~last_dispatch[bucket_key].allowed])
                /\ response' =
                     IF sink # "ok"
                     THEN [seen EXCEPT !.raised = SinkError(sink)]
                     ELSE IF ~c.allowed
                     THEN [seen EXCEPT !.status = 429,
                                       !.limit = limit.requests_per_minute,
                                       !.remaining = 0,
                                       !.retry_after = RetryAfterSeconds]
                     ELSE [seen EXCEPT !.status = 200,
                                       !.limit = limit.requests_per_minute,
                                       !.remaining = c.remaining]
    /\ UNCHANGED <<now, default_limit, endpoint_limits, enable_per_client, sink,
                   managerVars, contractVars, breakerVars, bucketVars>>

\* ---------------------------------------------------- CircuitBreakerManager
ServiceNames == {"payments", "search"}

\* get_breaker(name) called without config
NoConfig ==
    [failure_threshold |-> None, success_threshold |-> None,
     timeout_seconds |-> None, expected_exception |-> "None"]
\* CircuitBreakerConfig(): the defaults of the dataclass
DefaultConfig ==
    [failure_threshold |-> 5, success_threshold |-> 2, timeout_seconds |-> 60,
     expected_exception |-> "Exception"]
ManagerConfigs ==
    {NoConfig,
     [DefaultConfig EXCEPT !.failure_threshold = 1],
     [DefaultConfig EXCEPT !.failure_threshold = 2]}

\* CircuitBreaker(service_name, config): serial tells the objects apart
NewBreaker(name, cfg, serial) ==
    [service_name |-> name, serial |-> serial,
     config |-> IF cfg = NoConfig THEN DefaultConfig ELSE cfg,
     state |-> CLOSED, stats |-> CircuitBreakerStats, gauge |-> None,
     reset_pending |-> FALSE]

\* a get_breaker that builds a new breaker when the config passed differs
GetOrCreateReplacing(reg, name, cfg, serial) ==
    IF name \notin DOMAIN reg \/ (cfg # NoConfig /\ cfg # reg[name].config)
    THEN Put(reg, name, NewBreaker(name, cfg, serial))
    ELSE reg

\* the registry after get_breaker(name, cfg)
GetOrCreate(reg, name, cfg, serial) ==
    IF name \notin DOMAIN reg
    THEN Put(reg, name, NewBreaker(name, cfg, serial))
    ELSE reg

NoBreakerGot == [service_name |-> "", config_passed |-> NoConfig, serial |-> 0,
                 made |-> 0]

\* get_breaker(service_name, config)
GetBreaker(name, cfg) ==
    /\ got.made < MaxGets
    /\ LET reg == GetOrCreate(breakers, name, cfg, got.made + 1)
       IN  /\ breakers' = reg
           /\ got' = [service_name |-> name, config_passed |-> cfg,
                      serial |-> reg[name].serial, made |-> got.made + 1]
    /\ UNCHANGED <<now, middlewareVars, contractVars, breakerVars, bucketVars>>

\* the phase, statistics and gauge of a managed breaker replaced by those of b
WithBreaker(m, b) == [m EXCEPT !.state = b.state, !.stats = b.stats, !.gauge = b.gauge]

\* a call() through a managed breaker whose operation raises an expected
\* exception (metrics not importable)
ManagedFailure(name) ==
    /\ name \in DOMAIN breakers
    /\ breakers[name].state # OPEN
    /\ breakers[name].stats.total_requests < MaxManagedCalls
    /\ LET m == breakers[name]
           s1 == [m.stats EXCEPT !.failures = @ + 1, !.total_requests = @ + 1,
                                 !.last_failure_time = now]
           b1 == [state |-> m.state, stats |-> s1, gauge |-> m.gauge]
           b2 == IF s1.failures >= m.config.failure_threshold
                 THEN TransitionToOpen(b1, now) ELSE b1
           b3 == IF b2.state = HALF_OPEN THEN TransitionToOpen(b2, now) ELSE b2
       IN  breakers' = [breakers EXCEPT ![name] = WithBreaker(m, b3)]
    /\ UNCHANGED <<now, got, middlewareVars, contractVars, breakerVars,
                   bucketVars>>

\* a call() through a managed breaker whose operation returns
ManagedSuccess(name) ==
    /\ name \in DOMAIN breakers
    /\ breakers[name].state # OPEN
    /\ breakers[name].stats.total_requests < MaxManagedCalls
    /\ LET m == breakers[name]
           s1 == [m.stats EXCEPT !.successes = @ + 1, !.total_requests = @ + 1,
                                 !.last_success_time = now]
           b1 == [state |-> m.state, stats |-> s1, gauge |-> m.gauge]
           b2 == IF b1.state = HALF_OPEN
                      /\ s1.successes >= m.config.success_threshold
                 THEN TransitionToClosed(b1) ELSE b1
       IN  breakers' = [breakers EXCEPT ![name] = WithBreaker(m, b2)]
    /\ UNCHANGED <<now, got, middlewareVars, contractVars, breakerVars,
                   bucketVars>>

\* reset_all() called with no event loop running: every reset() runs _reset()
\* to its end
ResetAllSync ==
    /\ DOMAIN breakers # {}
    /\ breakers' = [n \in DOMAIN breakers |->
                       [WithBreaker(breakers[n], ResetBreaker(breakers[n]))
                          EXCEPT !.reset_pending = FALSE]]
    /\ UNCHANGED <<now, got, middlewareVars, contractVars, breakerVars,
                   bucketVars>>

\* reset_all() called inside the running loop: every reset() only creates its
\* _reset() task ...
ResetAllSchedule ==
    /\ \E n \in DOMAIN breakers : ~breakers[n].reset_pending
    /\ breakers' = [n \in DOMAIN breakers |->
                       [breakers[n] EXCEPT !.reset_pending = TRUE]]
    /\ UNCHANGED <<now, got, middlewareVars, contractVars, breakerVars,
                   bucketVars>>

\* ... which runs later
ManagedResetRun(name) ==
    /\ name \in DOMAIN breakers
    /\ breakers[name].reset_pending
    /\ breakers' = [breakers EXCEPT ![name] =
                       [WithBreaker(@, ResetBreaker(@)) EXCEPT !.reset_pending = FALSE]]
    /\ UNCHANGED <<now, got, middlewareVars, contractVars, breakerVars,
                   bucketVars>>

\* ----------------------------------------------------------------- @Contract
\* The rules of a feature, as its state.yaml gives them to the state machine:
\* those of the payment feature, and those of a feature whose Processing state
\* may return to Idle.
States == {"Idle", "Processing", "Paid", "Failed", "Refunding", "Refunded"}
Features == {"payment", "retry"}
Rules(feature) ==
    [initial |-> "Idle",
     transitions |->
        [s \in States |->
            CASE s = "Idle" -> {"Processing"}
              [] s = "Processing" ->
                    IF feature = "retry" THEN {"Paid", "Failed", "Idle"}
                    ELSE {"Paid", "Failed"}
              [] s = "Paid" -> {"Refunding"}
              [] s = "Refunding" -> {"Refunded"}
              [] OTHER -> {}]]

\* StateMachine(feature) of ranex_core: a new machine in the initial state
NoMachine == [feature |-> "", current_state |-> ""]
RustMachine(feature) ==
    [feature |-> feature, current_state |-> Rules(feature).initial]

\* the ValueError("Illegal transition ...") a refused transition raises; origin
\* tells the call that raised it
IllegalTransition(origin) == <<"ValueError", origin>>

\* machine.transition(target) called at origin: the machine afterwards and the
\* error raised, if any
Transition(m, target, origin) ==
    IF target \in Rules(m.feature).transitions[m.current_state]
    THEN [machine |-> [m EXCEPT !.current_state = target], raised |-> NoError]
    ELSE [machine |-> m, raised |-> IllegalTransition(origin)]

\* errors the wrapped function raises by itself; CancelledError is not an
\* Exception
FuncErrorTypes == {"ValueError", "KeyError", "CancelledError"}
FuncError(ty) == <<ty, "function">>

\* the auto-rollback of the handler (lines 169-208): nothing to do when the
\* state did not change, else a transition back to initial_state whose error
\* is caught and logged
Rollback(m, initial) ==
    IF m.current_state = initial
    THEN [machine |-> m, status |-> "not_needed", raised |-> NoError]
    ELSE LET r == Transition(m, initial, "rollback")
         IN  [machine |-> r.machine,
              status |-> IF r.raised = NoError THEN "done" ELSE "failed",
              raised |-> r.raised]

\* a handler that lets the error of a failed rollback out
PropagatedRollbackError(e, rollback_error) ==
    IF rollback_error # NoError THEN rollback_error ELSE e

\* what leaves the wrapper when the function raised e and the rollback raised
\* rollback_error (or nothing): `except Exception as rollback_error` only logs,
\* and the bare `raise` of line 225 re-raises e
Propagated(e, rollback_error) == e

NoOutcome == [returned |-> FALSE, func_error |-> NoError, raised |-> NoError,
              rollback |-> "none"]

\* `except Exception as e` of the wrapper (lines 167-225) for the error e that
\* left the function; an error that is not an Exception passes through it
HandleError(e) ==
    IF IsInstance(e, "Exception")
    THEN LET rb == Rollback(ctx, initial_state)
         IN  /\ ctx' = rb.machine
             /\ outcome' = [returned |-> FALSE, func_error |-> e,
                            raised |-> Propagated(e, rb.raised),
                            rollback |-> rb.status]
    ELSE /\ ctx' = ctx
         /\ outcome' = [returned |-> FALSE, func_error |-> e, raised |-> e,
                        rollback |-> "none"]

\* the wrapper is called (no input schema): it creates the machine, notes its
\* state, injects it as _ctx and calls the function (lines 132-150)
ContractCall(feature) ==
    /\ wrapper = "idle"
    /\ contract_calls < MaxContractCalls
    /\ contract_calls' = contract_calls + 1
    /\ ctx' = RustMachine(feature)
    /\ initial_state' = RustMachine(feature).current_state
    /\ wrapper' = "running"
    /\ outcome' = NoOutcome
    /\ UNCHANGED <<now, middlewareVars, managerVars, breakerVars, bucketVars>>

\* the function calls _ctx.transition(target); a refused transition raises,
\* and the function lets that error out (as in test_contract_state_transitions)
FuncTransition(target) ==
    /\ wrapper = "running"
    /\ LET r == Transition(ctx, target, "function")
       IN  IF r.raised = NoError
           THEN /\ ctx' = r.machine
                /\ UNCHANGED <<wrapper, outcome>>
           ELSE /\ HandleError(r.raised)
                /\ wrapper' = "idle"
    /\ UNCHANGED <<now, initial_state, contract_calls, middlewareVars,
                   managerVars, breakerVars, bucketVars>>

\* the function raises an error of its own
FuncRaise(ty) ==
    /\ wrapper = "running"
    /\ HandleError(FuncError(ty))
    /\ wrapper' = "idle"
    /\ UNCHANGED <<now, initial_state, contract_calls, middlewareVars,
                   managerVars, breakerVars, bucketVars>>

\* the function returns, and the wrapper returns its result (lines 150-165)
FuncReturn ==
    /\ wrapper = "running"
    /\ outcome' = [NoOutcome EXCEPT !.returned = TRUE]
    /\ wrapper' = "idle"
    /\ UNCHANGED <<now, ctx, initial_state, contract_calls, middlewareVars,
                   managerVars, breakerVars, bucketVars>>

MiddlewareIdle ==
    /\ default_limit = RateLimitConfig(60, None)
    /\ endpoint_limits = EmptyDict
    /\ enable_per_client = TRUE
    /\ limiter_buckets = EmptyDict
    /\ response = NoResponse
    /\ sink = "ok"
    /\ requests = 0
    /\ last_dispatch = EmptyDict

ManagerIdle ==
    /\ breakers = EmptyDict
    /\ got = NoBreakerGot

ContractIdle ==
    /\ ctx = NoMachine
    /\ initial_state = ""
    /\ wrapper = "idle"
    /\ outcome = NoOutcome
    /\ contract_calls = 0

ServiceIdle == MiddlewareIdle /\ ManagerIdle /\ ContractIdle

\* ------------------------------------------- the two backends side by side
\* A TokenBucket without redis client and one with a working client, built
\* with the same capacity and refill rate and given the same consume() calls,
\* every clock read of one call returning the same time.  buckets is the
\* mapping of the first, store the hashes of the second; ret holds what the
\* first returned and cl[1] what the second returned.
BackendCapacities == {1, 2}
\* two tokens an hour and one token an hour, as fractions of units per second
BackendRefillRates == {<<2 * TokenUnit, ExpireSeconds>>, <<TokenUnit, ExpireSeconds>>}
BackendTickSeconds == {ExpireSeconds \div 2, ExpireSeconds}

\* the bucket configured by the variables capacity and refill_rate
ThisBucket ==
    [capacity |-> capacity, refill_rate |-> refill_rate,
     redis_key_prefix |-> RedisKeyPrefix, buckets |-> buckets]

\* the refill both scripts start with, for the bucket tb and ARGV[3] = ts
BucketScriptRefill(tb, st, rk, ts, t) ==
    LET bucket == RedisBucket(st, rk, t)
        tokens == IF bucket = NoBucket THEN tb.capacity ELSE bucket[1]
        last_refill == IF bucket = NoBucket THEN ts ELSE bucket[2]
        elapsed == ts - last_refill
    IN  Min(tb.capacity, tokens + Refill(elapsed, tb.refill_rate))

\* the script of _consume_token_redis for the bucket tb
BucketConsumeScript(tb, st, rk, ts, t) ==
    LET tokens == BucketScriptRefill(tb, st, rk, ts, t)
    IN  IF tokens >= TokenUnit
        THEN [store |-> [st EXCEPT
                           ![rk] = <<tokens - TokenUnit, ts, t + ExpireSeconds>>],
              result |-> 1]
        ELSE [store |-> [st EXCEPT ![rk] = <<tokens, ts, t + ExpireSeconds>>],
              result |-> 0]

\* the script of _get_tokens_redis for the bucket tb
BucketGetScript(tb, st, rk, ts, t) ==
    LET tokens == BucketScriptRefill(tb, st, rk, ts, t)
    IN  [store |-> [st EXCEPT ![rk] = <<tokens, ts, t + ExpireSeconds>>],
         tokens |-> IntTrunc(tokens) * TokenUnit]

\* consume(key) of the bucket tb with a working redis client: the hashes
\* afterwards and the pair returned
BucketConsumeRedis(tb, st, key, t1, t2) ==
    LET rk == tb.redis_key_prefix \o key
        c == BucketConsumeScript(tb, st, rk, t1, t1)
        g == BucketGetScript(tb, c.store, rk, t2, t2)
    IN  [store |-> g.store, allowed |-> (c.result # 0),
         remaining |-> IntTrunc(g.tokens)]

BackendsTick(dt) ==
    /\ now + dt <= MaxBackendsTime
    /\ now' = now + dt
    /\ UNCHANGED <<breakerVars, bucketVars, serviceVars>>

\* the same consume(key), at the same time, on both buckets
BackendsConsume(key) ==
    /\ consumed < MaxBackendsCalls
    /\ LET local == BucketConsume(ThisBucket, key, now, now, now)
           distributed == BucketConsumeRedis(ThisBucket, store, key, now, now)
       IN  /\ buckets' = local.tb.buckets
           /\ ret' = [NoReturn EXCEPT !.key = key, !.allowed = local.allowed,
                                      !.remaining = local.remaining]
           /\ store' = distributed.store
           /\ cl' = [cl EXCEPT ![1] =
                        [pc |-> "idle", key |-> key, ts |-> now,
                         allowed |-> distributed.allowed,
                         remaining |-> distributed.remaining]]
    /\ consumed' = consumed + 1
    /\ UNCHANGED <<now, capacity, refill_rate, redis_client, key_hist, th,
                   store_hist, breakerVars, serviceVars>>

\* ------------------------------------------------------------ specification
BucketIdle ==
    /\ capacity = 0
    /\ refill_rate = 0
    /\ redis_client = NoRedis
    /\ buckets = [k \in Keys |-> NoBucket]
    /\ ret = NoReturn
    /\ consumed = 0
    /\ key_hist = [k \in Keys |-> NoHistory]
    /\ th = [t \in Threads |-> IdleThread]
    /\ store = [rk \in RedisKeys |-> NoBucket]
    /\ cl = [c \in Clients |-> IdleClient]
    /\ store_hist = [rk \in RedisKeys |-> NoStoreHistory]

BreakerIdle ==
    /\ config = [failure_threshold |-> 5, success_threshold |-> 2,
                 timeout_seconds |-> 60, expected_exception |-> "Exception"]
    /\ metrics_available = FALSE
    /\ state = CLOSED
    /\ stats = CircuitBreakerStats
    /\ gauge = None
    /\ lock = NoTask
    /\ pc = [t \in Tasks |-> "idle"]
    /\ call = [t \in Tasks |-> IdleCall]
    /\ reset_pending = FALSE
    /\ calls = 0
    /\ streak = 0
    /\ ho_succ = 0
    /\ ho_invoked = 0
    /\ opened_count = 0
    /\ just_reset = FALSE

InitBucket ==
    /\ now = 0
    /\ capacity \in {c * TokenUnit : c \in Capacities}
    /\ refill_rate \in RefillRates
    /\ redis_client \in {NoRedis, RedisRaising}
    /\ buckets = [k \in Keys |-> NoBucket]
    /\ ret = NoReturn
    /\ consumed = 0
    /\ key_hist = [k \in Keys |-> NoHistory]
    /\ th = [t \in Threads |-> IdleThread]
    /\ store = [rk \in RedisKeys |-> NoBucket]
    /\ cl = [c \in Clients |-> IdleClient]
    /\ store_hist = [rk \in RedisKeys |-> NoStoreHistory]
    /\ BreakerIdle
    /\ ServiceIdle

\* the buckets _init_buckets builds: TokenBucket(capacity=burst_capacity,
\* refill_rate=requests_per_second), one key in use; the rates used here are
\* whole numbers of token units per second
InitScenario ==
    /\ now = 0
    /\ \E rpm \in RequestsPerMinute, burst \in BurstCapacities :
          LET limit == RateLimitConfig(rpm, burst)
          IN  /\ capacity = limit.burst_capacity * TokenUnit
              /\ refill_rate =
                    limit.requests_per_second[1] \div limit.requests_per_second[2]
    /\ redis_client = NoRedis
    /\ buckets = [k \in Keys |-> NoBucket]
    /\ ret = NoReturn
    /\ consumed = 0
    /\ key_hist = [k \in Keys |-> NoHistory]
    /\ th = [t \in Threads |-> IdleThread]
    /\ store = [rk \in RedisKeys |-> NoBucket]
    /\ cl = [c \in Clients |-> IdleClient]
    /\ store_hist = [rk \in RedisKeys |-> NoStoreHistory]
    /\ BreakerIdle
    /\ ServiceIdle

NextScenario ==
    \/ ScenarioTick
    \/ \E d1 \in 0..MaxDrift, d2 \in 0..MaxDrift : ScenarioConsume("a", d1, d2)

SpecScenario == InitScenario /\ [][NextScenario]_vars

\* a bucket with capacity > 0 and refill_rate > 0, shared by the threads
InitThreads ==
    /\ now = 0
    /\ capacity \in {c * TokenUnit : c \in Capacities}
    /\ refill_rate \in RefillRates
    /\ ValidConfig
    /\ redis_client = NoRedis
    /\ buckets = [k \in Keys |-> NoBucket]
    /\ ret = NoReturn
    /\ consumed = 0
    /\ key_hist = [k \in Keys |-> NoHistory]
    /\ th = [t \in Threads |-> IdleThread]
    /\ store = [rk \in RedisKeys |-> NoBucket]
    /\ cl = [c \in Clients |-> IdleClient]
    /\ store_hist = [rk \in RedisKeys |-> NoStoreHistory]
    /\ BreakerIdle
    /\ ServiceIdle

NextThreads ==
    \/ ThreadTick
    \/ \E t \in Threads : ThreadCall(t)
    \/ \E t \in Threads : GetTokensNow(t)
    \/ \E t \in Threads : GetTokensCheck(t)
    \/ \E t \in Threads : GetTokensLoad(t)
    \/ \E t \in Threads : GetTokensStore(t)
    \/ \E t \in Threads : ConsumeTokenTest(t)
    \/ \E t \in Threads : ThreadReturn(t)

SpecThreads == InitThreads /\ [][NextThreads]_vars

\* buckets with capacity > 0 and refill_rate > 0 on one redis server
InitRedis ==
    /\ now = 0
    /\ capacity \in {c * TokenUnit : c \in Capacities}
    /\ refill_rate \in RefillRates
    /\ ValidConfig
    /\ redis_client = RedisWorking
    /\ buckets = [k \in Keys |-> NoBucket]
    /\ ret = NoReturn
    /\ consumed = 0
    /\ key_hist = [k \in Keys |-> NoHistory]
    /\ th = [t \in Threads |-> IdleThread]
    /\ store = [rk \in RedisKeys |-> NoBucket]
    /\ cl = [c \in Clients |-> IdleClient]
    /\ store_hist = [rk \in RedisKeys |-> NoStoreHistory]
    /\ BreakerIdle
    /\ ServiceIdle

NextRedis ==
    \/ RedisTick
    \/ \E c \in Clients, k \in Keys : RedisCall(c, k)
    \/ \E c \in Clients : RedisEvalConsume(c)
    \/ \E c \in Clients : RedisSendGet(c)
    \/ \E c \in Clients : RedisEvalGet(c)

SpecRedis == InitRedis /\ [][NextRedis]_vars

\* the redis path with a client that can fail between the two scripts of a call
NextRedisFailing ==
    \/ NextRedis
    \/ \E c \in Clients, ty \in RedisErrorTypes,
          d1 \in 0..MaxDrift, d2 \in 0..MaxDrift : RedisGetRaise(c, ty, d1, d2)

SpecRedisFailing == InitRedis /\ [][NextRedisFailing]_vars

\* functions wrapped with @Contract, called one after another
InitContract ==
    /\ now = 0
    /\ ContractIdle
    /\ MiddlewareIdle
    /\ ManagerIdle
    /\ BreakerIdle
    /\ BucketIdle

NextContract ==
    \/ \E f \in Features : ContractCall(f)
    \/ \E target \in States : FuncTransition(target)
    \/ \E ty \in FuncErrorTypes : FuncRaise(ty)
    \/ FuncReturn

SpecContract == InitContract /\ [][NextContract]_vars

NextBucket ==
    \/ BucketTick
    \/ \E k \in Keys, d1 \in 0..MaxDrift, d2 \in 0..MaxDrift : Consume(k, d1, d2)
    \/ \E k \in Keys, ty \in RedisErrorTypes,
          d0 \in 0..MaxDrift, d1 \in 0..MaxDrift, d2 \in 0..MaxDrift :
            ConsumeFallback(k, ty, d0, d1, d2)

SpecBucket == InitBucket /\ [][NextBucket]_vars

InitBreaker ==
    /\ now = 0
    /\ config \in CircuitBreakerConfig
    /\ metrics_available \in BOOLEAN
    /\ state = CLOSED
    /\ stats = CircuitBreakerStats
    /\ gauge = None
    /\ lock = NoTask
    /\ pc = [t \in Tasks |-> "idle"]
    /\ call = [t \in Tasks |-> IdleCall]
    /\ reset_pending = FALSE
    /\ calls = 0
    /\ streak = 0
    /\ ho_succ = 0
    /\ ho_invoked = 0
    /\ opened_count = 0
    /\ just_reset = FALSE
    /\ BucketIdle
    /\ ServiceIdle

NextBreaker ==
    \/ Tick
    \/ \E t \in Tasks : CallArrive(t)
    \/ \E t \in Tasks, d \in 0..MaxDrift : CallAcquire(t, d)
    \/ \E t \in Tasks : CallSuccess(t)
    \/ \E t \in Tasks, ty \in OpErrorTypes, d \in 0..MaxDrift : CallRaise(t, ty, d)
    \/ ResetSchedule
    \/ ResetRun
    \/ ResetSync

SpecBreaker == InitBreaker /\ [][NextBreaker]_vars

\* call() holds the lock from its admission check to its return, so calls are
\* served one after another: the caller of the liveness specification issues
\* its calls in sequence
LiveTasks == {1}

NextLive ==
    \/ Tick
    \/ \E t \in LiveTasks : CallArriveLive(t)
    \/ \E t \in LiveTasks, d \in 0..MaxDrift : CallAcquire(t, d)
    \/ \E t \in LiveTasks : CallSuccess(t)
    \/ \E t \in LiveTasks, ty \in OpErrorTypes, d \in 0..MaxDrift : CallRaise(t, ty, d)

\* time keeps advancing, calls keep arriving, a free lock is eventually taken
\* and an invoked operation eventually returns or raises
FairLive ==
    /\ WF_vars(Tick)
    /\ WF_vars(\E t \in LiveTasks : CallArriveLive(t))
    /\ WF_vars(\E t \in LiveTasks, d \in 0..MaxDrift : CallAcquire(t, d))
    /\ WF_vars(\E t \in LiveTasks :
                 CallSuccess(t)
                   \/ \E ty \in OpErrorTypes, d \in 0..MaxDrift : CallRaise(t, ty, d))

SpecLive == InitBreaker /\ [][NextLive]_vars /\ FairLive

\* RateLimiterMiddleware(app, default_limit, endpoint_limits, None,
\* enable_per_client) serving requests
InitMiddleware ==
    /\ now = 0
    /\ default_limit \in DefaultLimits
    /\ endpoint_limits \in EndpointLimits
    /\ enable_per_client \in BOOLEAN
    /\ limiter_buckets = InitBuckets(default_limit, endpoint_limits)
    /\ response = NoResponse
    /\ sink \in Sinks
    /\ requests = 0
    /\ last_dispatch = EmptyDict
    /\ ManagerIdle
    /\ ContractIdle
    /\ BreakerIdle
    /\ BucketIdle

NextMiddleware ==
    \/ \E dt \in TickSeconds : MiddlewareTick(dt)
    \/ \E req \in Requests : Dispatch(req)

SpecMiddleware == InitMiddleware /\ [][NextMiddleware]_vars

\* CircuitBreakerManager() handing out breakers that are then used and reset
InitManager ==
    /\ now = 0
    /\ breakers = EmptyDict
    /\ got = NoBreakerGot
    /\ MiddlewareIdle
    /\ ContractIdle
    /\ BreakerIdle
    /\ BucketIdle

NextManager ==
    \/ \E name \in ServiceNames, cfg \in ManagerConfigs : GetBreaker(name, cfg)
    \/ \E name \in ServiceNames : ManagedFailure(name)
    \/ \E name \in ServiceNames : ManagedSuccess(name)
    \/ ResetAllSync
    \/ ResetAllSchedule
    \/ \E name \in ServiceNames : ManagedResetRun(name)

SpecManager == InitManager /\ [][NextManager]_vars

\* the two buckets, both stores empty
InitBackends ==
    /\ now = 0
    /\ capacity \in {c * TokenUnit : c \in BackendCapacities}
    /\ refill_rate \in BackendRefillRates
    /\ redis_client = RedisWorking
    /\ buckets = EmptyDict
    /\ ret = NoReturn
    /\ consumed = 0
    /\ key_hist = [k \in Keys |-> NoHistory]
    /\ th = [t \in Threads |-> IdleThread]
    /\ store = [rk \in RedisKeys |-> NoBucket]
    /\ cl = [c \in Clients |-> IdleClient]
    /\ store_hist = [rk \in RedisKeys |-> NoStoreHistory]
    /\ BreakerIdle
    /\ ServiceIdle

NextBackends ==
    \/ \E dt \in BackendTickSeconds : BackendsTick(dt)
    \/ \E key \in Keys : BackendsConsume(key)

SpecBackends == InitBackends /\ [][NextBackends]_vars

\* ================================================================== claims
\* floor of a fixed-point token count, in whole tokens
Floor(x) == x \div TokenUnit

\* C1: for a bucket with capacity > 0 and refill rate > 0, after every consume
\* call (at whatever times the calls are made) the stored tokens of every key
\* lie between 0 and capacity.
C1_BucketBound ==
    ValidConfig =>
        \A k \in Keys :
            buckets[k] # NoBucket => 0 <= buckets[k][1] /\ buckets[k][1] <= capacity

\* C1 witness: after several consume calls one key is drained to 0 and another
\* key, consumed earlier, has been refilled up to the cap.
C1_Witness ==
    /\ ValidConfig
    /\ consumed >= 2
    /\ \E k1, k2 \in Keys :
          /\ buckets[k1] # NoBucket /\ buckets[k1][1] = 0
          /\ buckets[k2] # NoBucket /\ buckets[k2][1] = capacity
          /\ buckets[k2][2] > 0

\* C2: a consume(key) call refills the key for the time elapsed up to the call,
\* then, if the refilled tokens are >= 1, it subtracts 1 and returns
\* (true, floor(refilled - 1)); otherwise it returns (false, floor(refilled)).
C2_ConsumeContract ==
    [][(consumed' = consumed + 1 /\ ValidConfig) =>
        LET k == ret'.key
            t1 == ret'.reads[1]
            refilled == IF buckets[k] = NoBucket THEN capacity
                        ELSE Min(capacity,
                                 buckets[k][1] + (t1 - buckets[k][2]) * refill_rate)
        IN  IF refilled >= TokenUnit
            THEN ret'.allowed /\ ret'.remaining = Floor(refilled - TokenUnit)
            ELSE ~ret'.allowed /\ ret'.remaining = Floor(refilled)]_vars

\* ------------------------------------------------- steps of call(), by task
\* task t passes the admission part of call() in this step
AcquireStep(t) == pc[t] = "waiting" /\ pc'[t] # "waiting"
\* the operation of task t returns normally in this step
SuccessStep(t) ==
    pc[t] = "executing" /\ pc'[t] = "idle" /\ call'[t].result = "returned"
\* the operation of task t raises in this step
RaiseStep(t) ==
    pc[t] = "executing" /\ pc'[t] = "idle" /\ call'[t].result = "raised"
\* ... an exception of the configured kind (a classified failure)
FailureStep(t) ==
    RaiseStep(t) /\ IsInstance(call'[t].op_error, config.expected_exception)
\* the operation of task t's current or last call was invoked
Invoked(t) == call[t].adm_phase # "none"

\* C3: with failureThreshold = N, the N-th classified failure in a row on a
\* Closed breaker leaves it Open, and a call that reaches the admission check
\* of an Open breaker before timeoutSeconds has elapsed is rejected with the
\* circuit-open error without its operation being invoked.
C3_OpensAtThreshold ==
    [][\A t \in Tasks :
        /\ (FailureStep(t) /\ state = CLOSED
                /\ streak + 1 >= config.failure_threshold)
              => state' = OPEN
        /\ (AcquireStep(t) /\ state = OPEN
                /\ now - stats.opened_at < config.timeout_seconds)
              => (pc'[t] = "idle" /\ call'[t].result = "rejected"
                    /\ ~Invoked(t)')]_vars

\* C4: the call that reaches the admission check of an Open breaker when
\* now - openedAt >= timeoutSeconds moves it to HalfOpen, resets successes
\* to 0 and is admitted: its operation is invoked, it is not rejected.
C4_RecoveryProbe ==
    [][\A t \in Tasks :
        (AcquireStep(t) /\ state = OPEN /\ stats.opened_at # None
            /\ now - stats.opened_at >= config.timeout_seconds)
          => /\ state' = HALF_OPEN
             /\ stats'.successes = 0
             /\ pc'[t] = "executing"
             /\ call'[t].result # "rejected"]_vars

\* C4 witness: a breaker that had counted a success before it opened is in
\* HalfOpen with successes = 0, and the call that made the transition is
\* running its operation.
C4_Witness ==
    \E t \in Tasks :
        /\ pc[t] = "executing"
        /\ call[t].probe
        /\ state = HALF_OPEN
        /\ stats.successes = 0
        /\ stats.last_success_time # None
        /\ now - stats.opened_at >= config.timeout_seconds

\* C5: of two calls that both arrived at the breaker while it was Open with
\* the timeout elapsed (the same Open window), at most one has its operation
\* invoked; the other one is rejected.
C5_SingleProbe ==
    \A t1, t2 \in Tasks :
        (t1 # t2 /\ call[t1].arrived_win > 0
            /\ call[t1].arrived_win = call[t2].arrived_win)
          => ~(Invoked(t1) /\ Invoked(t2))

\* C6: the wrapped operation runs outside the breaker's lock: while a
\* caller's operation is in progress the lock is free, so that another caller
\* can take it and get its admit/reject decision.
C6_OperationOutsideLock ==
    (\E t \in Tasks : pc[t] = "executing") => lock = NoTask

\* C7: with successThreshold = K, a breaker in HalfOpen has completed fewer
\* than K successes since it entered HalfOpen; the success that makes it K
\* moves the breaker to Closed with failures = 0, and an earlier success
\* leaves it HalfOpen.
C7_HalfOpenSuccessPath ==
    [][/\ state' = HALF_OPEN => ho_succ' < config.success_threshold
       /\ \A t \in Tasks :
            (SuccessStep(t) /\ state = HALF_OPEN)
              => IF ho_succ + 1 >= config.success_threshold
                 THEN state' = CLOSED /\ stats'.failures = 0
                 ELSE state' = HALF_OPEN]_vars

\* C7 witness: with successThreshold = 2 the second success of a HalfOpen
\* episode has closed the breaker and zeroed failures.
C7_Witness ==
    /\ config.success_threshold = 2
    /\ state = CLOSED
    /\ ho_succ = 2
    /\ opened_count >= 1
    /\ stats.failures = 0
    /\ \E t \in Tasks :
          call[t].result = "returned" /\ call[t].adm_phase = HALF_OPEN

\* C8: a classified failure of a call admitted in HalfOpen moves the breaker
\* to Open in that very step and sets openedAt to the time of the failure
\* (a clock value read while the failure is handled).
C8_HalfOpenFailureReopens ==
    [][\A t \in Tasks :
        (FailureStep(t) /\ call[t].adm_phase = HALF_OPEN)
          => /\ state' = OPEN
             /\ now <= stats'.opened_at /\ stats'.opened_at <= now'
             /\ stats'.last_failure_time = now]_vars

\* C8 witness: a call admitted in HalfOpen failed with a classified error and
\* the breaker is Open again, openedAt later than the first opening.
C8_Witness ==
    \E t \in Tasks :
        /\ pc[t] = "idle"
        /\ call[t].result = "raised"
        /\ call[t].adm_phase = HALF_OPEN
        /\ IsInstance(call[t].op_error, config.expected_exception)
        /\ state = OPEN
        /\ opened_count = 2
        /\ stats.opened_at = stats.last_failure_time

\* C9: when the operation raises an error that is not of the configured
\* kind, the caller gets that error and phase, counters and timestamps of the
\* breaker are what they were when the operation was invoked.
C9_UnclassifiedInvisible ==
    [][\A t \in Tasks :
        (RaiseStep(t)
            /\ ~IsInstance(call'[t].op_error, config.expected_exception))
          => /\ call'[t].error = call'[t].op_error
             /\ state' = state
             /\ stats' = stats]_vars

\* C9 witness: with counters already non-zero, a call ended in an error
\* outside the configured kind, which the caller received.
C9_Witness ==
    \E t \in Tasks :
        /\ pc[t] = "idle"
        /\ call[t].result = "raised"
        /\ call[t].op_error # NoError
        /\ ~IsInstance(call[t].op_error, config.expected_exception)
        /\ call[t].error = call[t].op_error
        /\ stats.failures > 0
        /\ stats.total_requests = stats.failures + stats.successes

\* C10: a call that ended in a classified failure raised to its caller the
\* very error object the operation raised.
C10_ReraisesOriginal ==
    \A t \in Tasks :
        (call[t].result = "raised"
            /\ IsInstance(call[t].op_error, config.expected_exception))
          => call[t].error = call[t].op_error

\* C11: every rejection by an Open breaker carries
\* retryAfter = max(0, timeoutSeconds - (now - openedAt)), now being the clock
\* value read for the rejection, whatever the opening time openedAt >= 0.
C11_RetryAfter ==
    [][\A t \in Tasks :
        (AcquireStep(t) /\ call'[t].result = "rejected")
          => call'[t].retry_after =
                Max(0, config.timeout_seconds - (now' - stats.opened_at))]_vars

\* C18 (as claimed): when reset() returns, phase is Closed and failures,
\* successes and totalRequests are 0.  reset() called from a running event
\* loop returns in the step that creates the _reset() task.
C18_ResetOnReturn ==
    [][(~reset_pending /\ reset_pending')
          => /\ state' = CLOSED
             /\ stats'.failures = 0
             /\ stats'.successes = 0
             /\ stats'.total_requests = 0]_vars

\* C18 (amended): once the _reset() task of reset() has run, immediately or as
\* a scheduled task, phase is Closed and failures, successes and
\* totalRequests are 0, whatever the phase was before.
C18_ResetForcesClosed ==
    just_reset =>
        /\ state = CLOSED
        /\ stats.failures = 0
        /\ stats.successes = 0
        /\ stats.total_requests = 0

\* C18 witness: the breaker was opened by a failure, rejected the only other
\* call made (so it was still Open), and has just been reset.
C18_Witness ==
    /\ just_reset
    /\ calls = 2
    /\ opened_count = 1
    /\ \E t \in Tasks : pc[t] = "idle" /\ call[t].result = "rejected"
    /\ \A t \in Tasks : pc[t] = "idle"
    /\ state = CLOSED

\* C19: in every reachable state, after any sequence of call() and reset(),
\* phase = Open implies openedAt is set.
C19_OpenHasOpenedAt ==
    state = OPEN => stats.opened_at # None

\* C19 witness: the breaker is Open again after a reset() that had cleared
\* openedAt (state_changes restarted from 0, second opening).
C19_Witness ==
    /\ state = OPEN
    /\ stats.opened_at # None
    /\ opened_count = 2
    /\ stats.state_changes = 1

\* C20: in HalfOpen the successes counter equals the number of successful
\* calls completed since the breaker last entered HalfOpen.
C20_HalfOpenSuccessCount ==
    state = HALF_OPEN => stats.successes = ho_succ

\* C20 witness: a breaker that counted a success while Closed is in HalfOpen
\* with exactly the one success of this HalfOpen episode counted.
C20_Witness ==
    /\ state = HALF_OPEN
    /\ ho_succ = 1
    /\ stats.successes = 1
    /\ stats.total_requests = 3
    /\ stats.failures = 1

\* C12: with a redis client configured that raises on every call, no consume
\* call raises, and each returns the (allowed, remaining) the in-memory backend
\* computes for it from the in-memory buckets, which it alone updates.
C12_FallbackTransparent ==
    [][(consumed' = consumed + 1 /\ redis_client = RedisRaising) =>
        LET k == ret'.key
            c == ConsumeTokenMemory(buckets, k, ret'.reads[1], ret'.reads[2])
            g == GetTokensMemory(c.buckets, k, ret'.reads[3])
        IN  /\ ret'.raised = NoError
            /\ ret'.allowed = c.allowed
            /\ ret'.remaining = IntTrunc(g.tokens)
            /\ buckets' = g.buckets]_vars

\* C12 witness: with the raising client, after an admitted call took the last
\* token, a later call on the same key was refused without raising.
C12_Witness ==
    /\ redis_client = RedisRaising
    /\ ValidConfig
    /\ ret.key # ""
    /\ ret.raised = NoError
    /\ ~ret.allowed
    /\ key_hist[ret.key].calls >= 2
    /\ now > 0

C13_LazyExactRefill ==
    consumed > 0 =>
        LET old == ret.stored
            t1 == ret.reads[1]
            t2 == ret.reads[2]
            t3 == ret.reads[3]
            refilled == IF old = NoBucket THEN capacity
                        ELSE Min(capacity, old[1] + (t1 - old[2]) * refill_rate)
            mid == IF ret.allowed THEN <<refilled - TokenUnit, t2>>
                   ELSE <<refilled, t1>>
        IN  /\ ret.refilled = refilled
            /\ buckets[ret.key] =
                  <<Min(capacity, mid[1] + (t3 - mid[2]) * refill_rate), t3>>
            /\ (/\ capacity = 10 * TokenUnit
                /\ refill_rate = 1 * TokenUnit
                /\ old # NoBucket
                /\ old[1] = 0
                /\ t1 = old[2] + 5) => ret.refilled = 5 * TokenUnit

\* C13 witness: capacity 10, refillRate 1; ten calls at time 0 emptied the
\* bucket, and the eleventh, 5 seconds later, found exactly 5 tokens.
C13_Witness ==
    /\ capacity = 10 * TokenUnit
    /\ refill_rate = 1 * TokenUnit
    /\ key_hist["a"].calls = 11
    /\ ret.stored = <<0, 0>>
    /\ ret.reads[1] = 5
    /\ ret.refilled = 5 * TokenUnit
    /\ ret.allowed

\* C14: a key never consumed starts full.  While every consume call on a key
\* of a bucket of capacity N has been made at the instant the key was
\* created, the first N calls are admitted, the n-th leaving N - n tokens
\* (the N-th returns remaining = 0), and every further call is rejected.
C14_FreshKeyFull ==
    \A k \in Keys :
        (key_hist[k].created = now /\ capacity > 0) =>
            LET n == key_hist[k].calls
                N == capacity \div TokenUnit
            IN  /\ n <= N => buckets[k] = <<(N - n) * TokenUnit, now>>
                /\ n > N => buckets[k] = <<0, now>>
                /\ ret.key = k =>
                      IF n <= N
                      THEN ret.allowed /\ ret.remaining = N - n
                      ELSE ~ret.allowed /\ ret.remaining = 0

\* C14 witness: requests_per_minute = 60 (N = 60, one token per second); the
\* 61st instantaneous call on the key has just been rejected.
C14_Witness ==
    /\ capacity = 60 * TokenUnit
    /\ refill_rate = 1 * TokenUnit
    /\ key_hist["a"].created = now
    /\ key_hist["a"].calls = 61
    /\ ret.key = "a"
    /\ ~ret.allowed
    /\ ret.remaining = 0
    /\ buckets["a"] = <<0, now>>

\* C17: with the in-memory backend and several threads calling consume on the
\* same key concurrently, 0 <= tokens <= capacity holds for the key in every
\* reachable state.
C17_ConcurrentBucketBound ==
    buckets[ThreadKey] # NoBucket =>
        /\ 0 <= buckets[ThreadKey][1]
        /\ buckets[ThreadKey][1] <= capacity

\* C16: on the redis backend the refill, the test and the deduction of a
\* consume are one step on the stored (tokens, lastRefill) of prefix+key, so
\* with clients consuming a key concurrently every admitted call has a token
\* of its own: the tokens left plus one token per admitted call never exceed
\* the capacity plus the refill credited up to lastRefill, and the admitted
\* calls never exceed the capacity plus the refill of the time passed.
C16_AtomicConsume ==
    \A rk \in RedisKeys :
        store[rk] # NoBucket =>
            LET created == store_hist[rk].created
                taken == TokenUnit * store_hist[rk].admitted
            IN  /\ store[rk][1] + taken
                     <= capacity + refill_rate * (store[rk][2] - created)
                /\ taken <= capacity + refill_rate * (now - created)

\* C16 witness: two clients had their consume scripts for the same key in
\* flight together; both were admitted and the key lost two tokens.
C16_Witness ==
    /\ \A c \in Clients : cl[c].pc = "consume_done" /\ cl[c].allowed
    /\ cl[1].key = cl[2].key
    /\ cl[1].ts = cl[2].ts
    /\ store_hist[RedisKey(cl[1].key)].admitted = 2
    /\ store[RedisKey(cl[1].key)][1] = capacity - 2 * TokenUnit

\* the phase changes call() is allowed to make
CallEdges ==
    {<<CLOSED, OPEN>>, <<OPEN, HALF_OPEN>>, <<HALF_OPEN, CLOSED>>,
     <<HALF_OPEN, OPEN>>}

\* C21: a breaker starts Closed, and every step of a call() either leaves the
\* phase alone or changes it along Closed->Open, Open->HalfOpen,
\* HalfOpen->Closed or HalfOpen->Open; only the steps of reset() are exempt.
C21_PhaseEdges ==
    /\ state = CLOSED
    /\ [][(\E t \in Tasks : pc'[t] # pc[t]) =>
            (state' = state \/ <<state, state'>> \in CallEdges)]_vars

\* C21 witness: the phase has gone Closed->Open->HalfOpen->Closed->Open
\* through calls alone.
C21_Witness ==
    /\ state = OPEN
    /\ opened_count = 2
    /\ stats.state_changes = 4
    /\ calls = 3

\* C27: at the admission check of a call (clock read now), the call is
\* rejected with the circuit-open error if and only if phase is Open and
\* now - openedAt < timeoutSeconds; a call whose admission check finds the
\* breaker Closed or HalfOpen is admitted and its operation invoked.
C27_RejectedIffOpen ==
    [][\A t \in Tasks : AcquireStep(t) =>
          /\ (call'[t].result = "rejected")
                <=> (/\ state = OPEN
                     /\ now - stats.opened_at < config.timeout_seconds)
          /\ state \in {CLOSED, HALF_OPEN} =>
                (pc'[t] = "executing" /\ call'[t].adm_phase = state)
          /\ call'[t].result # "rejected" => pc'[t] = "executing"]_vars

\* C27 witness: one call has been rejected by the Open breaker and, the
\* timeout elapsed, another has been admitted and is running its operation.
C27_Witness ==
    \E t1, t2 \in Tasks :
        /\ call[t1].result = "rejected"
        /\ pc[t2] = "executing"
        /\ call[t2].adm_phase = HALF_OPEN
        /\ now - stats.opened_at >= config.timeout_seconds

\* the recovery timeout of the current opening ends within the clock's range
WithinHorizon == stats.opened_at + config.timeout_seconds <= MaxTime

\* C30: an Open breaker does not stay Open for ever.  While time advances and
\* calls keep arriving, an Open breaker (whose timeout ends within the clock's
\* range) leads to a call admitted in HalfOpen; and if from some point on
\* every admitted operation succeeds, the breaker ends up Closed for good
\* (or Open with its timeout beyond the clock's range).
C30_OpenNotForever ==
    /\ (state = OPEN /\ WithinHorizon) ~> (state = HALF_OPEN)
    /\ (<>[][\A t \in Tasks : ~RaiseStep(t)]_vars)
          => <>[](state = CLOSED \/ (state = OPEN /\ ~WithinHorizon))

\* C30 witness: the breaker opened, a call was admitted in HalfOpen, its
\* operation succeeded and the breaker is Closed again.
C30_Witness ==
    /\ state = CLOSED
    /\ opened_count = 1
    /\ stats.state_changes = 3
    /\ stats.failures = 0
    /\ \E t \in Tasks : call[t].adm_phase = HALF_OPEN /\ call[t].result = "returned"

\* C22: whatever the state of the metrics sink (importable, not importable,
\* raising on an emit), dispatch() does not fail: it returns a response.
C22_SinkNeutral == response.raised = NoError

\* this step is a get_breaker() call
GetStep == got'.made = got.made + 1

\* C23: get_breaker(name) creates a breaker on the first call for a name (with
\* the config passed, or the default config) and on every later call returns
\* that same breaker, its phase, statistics and config as they were, also when
\* a different config is passed; no step, reset_all() included, removes a
\* registered breaker, replaces it by another object or changes its config.
C23_SameBreaker ==
    [][/\ \A n \in DOMAIN breakers :
             /\ n \in DOMAIN breakers'
             /\ breakers'[n].serial = breakers[n].serial
             /\ breakers'[n].config = breakers[n].config
       /\ GetStep =>
             LET n == got'.service_name
             IN  /\ n \in DOMAIN breakers'
                 /\ got'.serial = breakers'[n].serial
                 /\ n \in DOMAIN breakers => breakers' = breakers
                 /\ n \notin DOMAIN breakers =>
                       /\ breakers'[n] =
                            NewBreaker(n, got'.config_passed, got'.made)
                       /\ \A m \in DOMAIN breakers :
                             breakers[m].serial # breakers'[n].serial]_vars

\* C23 witness: a breaker that has failed and opened was handed out again to
\* a get_breaker() passing another config than its own.
C23_Witness ==
    /\ got.made >= 2
    /\ got.serial < got.made
    /\ got.config_passed # NoConfig
    /\ got.config_passed # breakers[got.service_name].config
    /\ breakers[got.service_name].state = OPEN
    /\ breakers[got.service_name].stats.failures = 2

\* this step is a dispatch() of a rate limited request
DispatchStep == requests' = requests + 1 /\ response'.path \in Endpoints

\* the TokenBucket b has the capacity and refill rate of the config limit
BuiltFrom(b, limit) ==
    /\ b.capacity = limit.burst_capacity * TokenUnit
    /\ b.refill_rate = limit.requests_per_second

C25_KeyOfScopeAndClient ==
    response.path \in Endpoints =>
        response.key = IF enable_per_client
                       THEN response.path \o ":" \o response.client_id
                       ELSE response.path

\* C25: the bucket key of a rate limited request is scope + ":" + clientId
\* when per-client limiting is enabled and the client id is not empty, and the
\* scope alone otherwise; the consume of the request changes the stored
\* (tokens, lastRefill) of no other key, in the serving bucket or in another.
C25_KeyAndIsolation ==
    [][DispatchStep =>
          /\ response'.key =
                IF enable_per_client /\ response'.client_id # ""
                THEN response'.path \o ":" \o response'.client_id
                ELSE response'.path
          /\ \A n \in DOMAIN limiter_buckets :
                \A k \in DOMAIN limiter_buckets[n].buckets :
                    <<n, k>> # <<response'.served_by, response'.key>> =>
                        /\ k \in DOMAIN limiter_buckets'[n].buckets
                        /\ limiter_buckets'[n].buckets[k] =
                              limiter_buckets[n].buckets[k]]_vars

\* C25 witness: with per-client limiting enabled, a request whose client id
\* resolved to the empty string was keyed by its scope alone, in a bucket that
\* also holds an exhausted key of a client of the same scope.
C25_Witness ==
    /\ enable_per_client
    /\ response.path = "/b"
    /\ response.client_id = ""
    /\ response.key = "/b"
    /\ response.allowed
    /\ "/b:10.0.0.1" \in DOMAIN limiter_buckets[DefaultBucket].buckets
    /\ limiter_buckets[DefaultBucket].buckets["/b:10.0.0.1"][1] = 0

\* C26: after every consume() call made on both backends at the same time,
\* from empty stores, the two calls returned the same (allowed, remaining) and
\* the two backends hold the same (tokens, lastRefill) for the key consumed.
C26_BackendsAgree ==
    consumed > 0 =>
        /\ cl[1].allowed = ret.allowed
        /\ cl[1].remaining = ret.remaining
        /\ store[RedisKey(ret.key)][1] = buckets[ret.key][1]
        /\ store[RedisKey(ret.key)][2] = buckets[ret.key][2]

\* C28: a consume() that returned allowed = false on a bucket with
\* capacity > 0 and refill rate > 0 returned remaining = 0.
C28_RefusedMeansZero ==
    (ValidConfig /\ ret.key # "" /\ ret.raised = NoError /\ ~ret.allowed)
        => ret.remaining = 0

\* C29: a refused request is answered 429 with Retry-After: 60, and a request
\* on a bucket key whose last request was refused, made at least 60 seconds
\* after that refusal, is admitted, for every configured requests_per_minute
\* (here 1 and 2, with and without a burst capacity of 1).
C29_RetryAdmitted ==
    [][DispatchStep =>
          LET k == response'.key
          IN  /\ response'.status = 429 =>
                    response'.retry_after = RetryAfterSeconds
              /\ (/\ k \in DOMAIN last_dispatch
                  /\ ~last_dispatch[k].allowed
                  /\ now >= last_dispatch[k].at + RetryAfterSeconds)
                    => /\ response'.allowed
                       /\ response'.forwarded
                       /\ response'.status \in {0, 200}]_vars

\* C29 witness: at one request per minute, a key was refused and its retry 60
\* seconds later was admitted and answered 200.
C29_Witness ==
    /\ default_limit.requests_per_minute = 1
    /\ response.served_by = DefaultBucket
    /\ response.status = 200
    /\ response.key \in DOMAIN last_dispatch
    /\ last_dispatch[response.key].after_refusal
    /\ last_dispatch[response.key].allowed
    /\ last_dispatch[response.key].at = RetryAfterSeconds
    /\ now = RetryAfterSeconds

\* C31: total_requests starts at 0, goes back to 0 at a reset, and is raised
\* by exactly one by every admitted call that ends in success or in a
\* classified failure and by no other step; a rejected call changes no counter,
\* and a call ending in a non-classified error changes no counter when its
\* operation ends: the only counters such a call can change are those of the
\* Open->HalfOpen transition made at its admission (successes zeroed, one more
\* state change).
C31_TotalRequestsCounts ==
    /\ stats.total_requests = 0
    /\ [][/\ \A t \in Tasks :
               /\ (SuccessStep(t) \/ FailureStep(t))
                     => stats'.total_requests = stats.total_requests + 1
               /\ (AcquireStep(t) /\ call'[t].result = "rejected")
                     => stats' = stats
               /\ (AcquireStep(t) /\ call'[t].result # "rejected")
                     => \/ stats' = stats
                        \/ /\ call'[t].probe
                           /\ stats' = [stats EXCEPT !.successes = 0,
                                                     !.state_changes = @ + 1]
               /\ (RaiseStep(t) /\ ~FailureStep(t)) => stats' = stats
          /\ (\A t \in Tasks : ~SuccessStep(t) /\ ~FailureStep(t))
                => \/ stats'.total_requests = stats.total_requests
                   \/ stats'.total_requests = 0 /\ pc' = pc
         ]_vars

\* C31 witness: a counted call has ended, and a call whose admission made the
\* Open->HalfOpen transition has ended in a non-classified error
C31_Witness ==
    /\ stats.total_requests >= 1
    /\ \E t \in Tasks :
          /\ call[t].result = "raised"
          /\ ~IsInstance(call[t].op_error, config.expected_exception)
          /\ call[t].probe

\* C31 as stated, for the calls ending in a non-classified error: such a call
\* has changed no counter, so it is not a call whose admission zeroed successes
\* and counted a state change.
C31_NonClassifiedChangesNothing ==
    \A t \in Tasks :
        (call[t].result = "raised"
            /\ ~IsInstance(call[t].op_error, config.expected_exception))
          => ~call[t].probe

C33_SuccessesDoNotForgive ==
    /\ stats.failures = 0
    /\ [][\A t \in Tasks :
            /\ (SuccessStep(t) /\ state = CLOSED)
                  => stats'.failures = stats.failures
            /\ (FailureStep(t) /\ state = CLOSED)
                  => /\ stats'.failures = stats.failures + 1
                     /\ (stats.failures + 1 >= config.failure_threshold)
                           => state' = OPEN]_vars

\* C34: whenever the breaker is Closed, failures is below failureThreshold.
C34_ClosedBelowThreshold ==
    state = CLOSED => stats.failures < config.failure_threshold

\* C35: on one key the calls admitted between two times never exceed
\* capacity + refillRate * (the time between them); here for the calls in
\* progress in the threads, all entered since the bucket was constructed at
\* time 0: the tokens of those already admitted never exceed
\* capacity + refill_rate * now.
C35_AdmissionBound ==
    Cardinality({t \in Threads : th[t].allowed}) * TokenUnit
        <= capacity + (refill_rate * now)

\* client c's call falls back to the memory path in this step
GetRaiseStep(c) == cl[c].pc = "consume_done" /\ cl'[c].pc = "idle"

\* C36: when the redis client raises after the consume script of a call has
\* run and before its read of the remaining tokens, the call still removes at
\* most one token in total (the one redis took, if it admitted, plus the one
\* the memory path takes when it finds a whole token), and when redis took the
\* token the call returns redis's decision.
C36_OneTokenPerCall ==
    [][\A c \in Clients :
        GetRaiseStep(c) =>
            /\ (IF cl[c].allowed THEN 1 ELSE 0)
                 + (IF ret'.refilled >= TokenUnit THEN 1 ELSE 0) <= 1
            /\ cl[c].allowed => ret'.allowed]_vars

\* C37: a consume(key) call whose clock reads are t1 <= t2 <= t3 leaves the key
\* with lastRefill = t3 and with the tokens it had after the refill at t1,
\* less the token taken if the call was admitted, plus the refill for the whole
\* of t1..t3, capped at capacity: no part of the elapsed time is lost or
\* counted twice.
C37_NoTimeLost ==
    [][(consumed' = consumed + 1 /\ ValidConfig /\ ret'.raised = NoError) =>
        LET k == ret'.key
            t1 == ret'.reads[1]
            t3 == ret'.reads[3]
            refilled == IF buckets[k] = NoBucket THEN capacity
                        ELSE Min(capacity,
                                 buckets[k][1] + (t1 - buckets[k][2]) * refill_rate)
            taken == IF ret'.allowed THEN TokenUnit ELSE 0
        IN  buckets'[k] =
              <<Min(capacity, (refilled - taken) + (t3 - t1) * refill_rate), t3>>
      ]_vars

\* C38: when the function wrapped with @Contract raised an error, the caller
\* of the wrapper got that same error and no result, whether the rollback to
\* the initial state was made, failed, was not needed or was not attempted.
C38_ErrorPropagates ==
    outcome.func_error # NoError =>
        /\ outcome.raised = outcome.func_error
        /\ ~outcome.returned
        /\ outcome.rollback \in {"done", "failed", "not_needed", "none"}

\* C38 witness: the function raised after changing the state, the rollback
\* transition was refused, and the caller got the function's error
C38_Witness ==
    /\ wrapper = "idle"
    /\ outcome.func_error = FuncError("ValueError")
    /\ outcome.rollback = "failed"
    /\ ctx.current_state = "Processing"
    /\ outcome.raised = outcome.func_error

====
